---- MODULE Spec2Model ----
(***************************************************************************)
(* Model of the bedsheet orchestration engine: Agent.invoke               *)
(* (src/bedsheet/agent.py), Supervisor.invoke (src/bedsheet/supervisor.py) *)
(* and the InMemory store (src/bedsheet/memory/in_memory.py); and of the   *)
(* sense network: SenseMixin (src/bedsheet/sense/mixin.py) over the        *)
(* in-memory hub of src/bedsheet/testing.py; and of RedisMemory            *)
(* (src/bedsheet/memory/redis.py) under overlapping add_messages calls.    *)
(*                                                                         *)
(* Python str values are sequences of text fragments, so that formatting  *)
(* (f-strings, the 'Error: ' prefix, json.dumps) is concatenation and     *)
(* 'x in s' is membership of a fragment.  None is a value of its own.     *)
(* Tool results (typed Any in the source) are tagged with their Python    *)
(* type; they are taken to be JSON-representable.                          *)
(***************************************************************************)
EXTENDS Integers, Sequences, FiniteSets, TLC

\* ------------------------------------------------------------------ bounds
MaxIterations  == 2     \* max_iterations of a top-level agent (a collaborator has 1)
MaxToolCalls   == 2     \* most tool calls (delegation records counted) a model requests over one invocation
MaxDelegations == 2     \* largest number of records in one delegation batch
MaxHistory     == 2     \* a new invocation starts only while at most this many messages are stored

\* ------------------------------------------------------------ python values
None == <<"<None>">>
EmptyStr == <<>>

Truthy(s) == s # None /\ s # EmptyStr

\* Message.tool_calls is None: the source stores a list there only when it is
\* non-empty (agent.py line 153), so the empty list stands for None
NoToolCalls == <<>>

\* str(int), as used by the f-string of the max-iterations message
RECURSIVE ToStr(_)
ToStr(n) ==
    IF n < 10
    THEN << <<"0", "1", "2", "3", "4", "5", "6", "7", "8", "9">>[n + 1] >>
    ELSE ToStr(n \div 10) \o ToStr(n % 10)

PyNone      == [t |-> "None", v |-> <<>>]
PyStr(s)    == [t |-> "str",  v |-> s]
PyDict(d)   == [t |-> "dict", v |-> d]

\* json.dumps of a dict given as an insertion-ordered sequence of <<key, str>> pairs
RECURSIVE JsonItems(_)
JsonItems(d) ==
    IF d = <<>> THEN <<>>
    ELSE <<"\"", d[1][1], "\": \"">> \o d[1][2] \o <<"\"">>
         \o (IF Len(d) > 1 THEN <<", ">> ELSE <<>>) \o JsonItems(Tail(d))

JsonDumpsDict(d) == <<"{">> \o JsonItems(d) \o <<"}">>

\* json.dumps(value)
JsonDumps(val) ==
    CASE val.t = "None" -> <<"null">>
      [] val.t = "str"  -> <<"\"">> \o val.v \o <<"\"">>
      [] val.t = "dict" -> JsonDumpsDict(val.v)

\* the keys of the mapping a JSON text encodes (json.loads(s).keys())
JsonKeys(s) ==
    { s[i + 1] : i \in { j \in 2..(Len(s) - 1) : s[j] = "\"" /\ s[j - 1] \in {"{", ", "} } }

\* dict.get(key, default)
Get(d, key, default) == IF key \in DOMAIN d THEN d[key] ELSE default

\* ------------------------------------------------------------------ events
ToolCallEvent(tool_name, tool_input, call_id) ==
    [type |-> "tool_call", tool_name |-> tool_name, tool_input |-> tool_input, call_id |-> call_id]

ToolResultEvent(call_id, result, error) ==
    [type |-> "tool_result", call_id |-> call_id, result |-> result, error |-> error]

CompletionEvent(response_text) ==
    [type |-> "completion", response |-> response_text]

ErrorEvent(error, recoverable) ==
    [type |-> "error", error |-> error, recoverable |-> recoverable]

TextTokenEvent(token) ==
    [type |-> "text_token", token |-> token]

RoutingEvent(agent_name, task) ==
    [type |-> "routing", agent_name |-> agent_name, task |-> task]

DelegationEvent(delegations) ==
    [type |-> "delegation", delegations |-> delegations]

CollaboratorStartEvent(agent_name, task) ==
    [type |-> "collaborator_start", agent_name |-> agent_name, task |-> task]

CollaboratorEvent(agent_name, inner_event) ==
    [type |-> "collaborator", agent_name |-> agent_name, inner_event |-> inner_event]

CollaboratorCompleteEvent(agent_name, response_text) ==
    [type |-> "collaborator_complete", agent_name |-> agent_name, response |-> response_text]

\* ---------------------------------------------------------------- messages
Message(role, content, tool_calls, tool_call_id) ==
    [role |-> role, content |-> content, tool_calls |-> tool_calls, tool_call_id |-> tool_call_id]

\* ------------------------------------------------------------ configuration
\* what is invoked at top level: a plain Agent, or a Supervisor in one of its
\* two collaboration modes
Kinds == {"agent", "supervisor", "router"}

PlainAgent    == "TestAgent"
Manager       == "Manager"
Collaborators == {"FinanceAgent", "ResearchAgent", "DraftAgent"}
Agents        == {PlainAgent, Manager} \cup Collaborators

\* frame 0 is the top-level invocation; frames 1..MaxDelegations run the
\* branches of a delegation (_execute_single_delegation and the collaborator's invoke)
Branches == 1..MaxDelegations
Frames   == 0..MaxDelegations

Sessions == {<<"s1">>, <<"s2">>}

\* the session the top-level invocations are made on; the other one is never named
InvokedSessions == {<<"s1">>}

DerivedSessionShared(sid, agent_name) == sid

\* f"{session_id}:{agent_name}"
DerivedSession(sid, agent_name) == sid \o <<":", agent_name>>

AllSessions == Sessions \cup { DerivedSession(s, a) : s \in InvokedSessions, a \in Collaborators }

InputTexts == {<<"Hi">>}

Tasks == {<<"Get revenue">>}

\* the text the model client of an agent answers with (two fragments: a
\* stream delivers them as two chunks)
ModelText(a) == <<"reply of ", a>>

\* model_client is not None: one collaborator was built without a client
has_client(a) == a # "DraftAgent"

\* the action groups of each agent: the tools of src/tests/test_agent.py for
\* the plain agent, the built-in delegate action plus two tools for the
\* supervisor, the 'loop' tool of src/tests/test_supervisor.py for one collaborator
Catalog(a) ==
    CASE a = PlainAgent     -> {"get_weather", "failing_tool"}
      [] a = Manager        -> {"delegate", "get_weather", "failing_tool"}
      [] a = "FinanceAgent" -> {"loop"}
      [] OTHER              -> {}

\* what awaiting action.fn(**input) can do: return a value or raise Exception(msg)
Returns(val) == [kind |-> "return", value |-> val]
Raises(msg)  == [kind |-> "raise", msg |-> msg]

ToolOutcomes(name) ==
    CASE name = "get_weather"  -> { Returns(PyDict(<< <<"city", <<"SF">> >> >>)) }
      [] name = "loop"         -> { Returns(PyStr(<<"still going">>)) }
      [] name = "failing_tool" -> { Raises(<<"Something went wrong!">>), Raises(EmptyStr) }
      [] name = "delegate"     -> { Returns(PyStr(EmptyStr)) }
      [] OTHER                 -> {}

\* Agent.get_action
get_action(a, name) == IF name \in Catalog(a) THEN <<name>> ELSE None

ToolCall(id, name, input) == [id |-> id, name |-> name, input |-> input]

CallId(i) == <<"call_">> \o ToStr(i)

\* the payloads of a delegate call: a single pair (its agent_name may be
\* missing), or a list of two or more records
DelegationRecords ==
    { [agent_name |-> a, task |-> t] : a \in Collaborators \cup {"Nobody"}, t \in Tasks }

DelegateInputs ==
    { [agent_name |-> a, task |-> t] : a \in {"FinanceAgent", "DraftAgent", "Nobody"}, t \in Tasks }
    \cup { [task |-> t] : t \in Tasks }
    \cup { [delegations |-> ds] :
             ds \in UNION { [1..m -> DelegationRecords] : m \in 2..MaxDelegations } }

\* the calls a model response may carry, per agent: name and input
RequestedCalls(a) ==
    CASE a = PlainAgent ->
            { <<n, <<>> >> : n \in {"get_weather", "failing_tool", "nonexistent"} }
      [] a = Manager ->
            { <<n, <<>> >> : n \in {"get_weather", "failing_tool", "nonexistent"} }
            \cup { <<"delegate", i>> : i \in DelegateInputs }
      [] OTHER -> { <<n, <<>> >> : n \in Catalog(a) }

\* what a call takes of MaxToolCalls: a delegation batch counts its records
Cost(c) == IF c[1] = "delegate" /\ "delegations" \in DOMAIN c[2] THEN Len(c[2].delegations) ELSE 1

RECURSIVE TotalCost(_)
TotalCost(cs) == IF cs = <<>> THEN 0 ELSE Cost(cs[1]) + TotalCost(Tail(cs))

\* the tool-call lists of a model response that requests at most maxk calls:
\* ids are unique within the response
Batches(a, maxk) ==
    UNION { { [i \in 1..k |-> ToolCall(CallId(i), cs[i][1], cs[i][2])] :
                cs \in { x \in [1..k -> RequestedCalls(a)] :
                           /\ TotalCost(x) <= maxk
                           /\ Cardinality({ i \in 1..k : x[i][1] = "delegate" }) <= 1 } }
            : k \in 1..maxk }

LLMResponse(text, tool_calls) == [text |-> text, tool_calls |-> tool_calls]

\* the model backend returned no response object
NoResponse == [text |-> None, tool_calls |-> <<>>, absent |-> TRUE]

\* what a model call can return when at most maxk more tool calls are requested
Responses(a, maxk) ==
    IF a \in Collaborators
    THEN { LLMResponse(ModelText(a), <<>>) }
         \cup { LLMResponse(None, b) : b \in Batches(a, IF maxk > 1 THEN 1 ELSE maxk) }
    ELSE { LLMResponse(t, <<>>) :
             t \in (IF a = Manager THEN {None, ModelText(a)} ELSE {None, EmptyStr, ModelText(a)}) }
         \cup { NoResponse }
         \cup { LLMResponse(t, b) : t \in (IF a = Manager THEN {None} ELSE {None, ModelText(a)}),
                                    b \in Batches(a, maxk) }

\* Responses, tabulated
ResponseTable == [a \in Agents |-> [k \in 0..MaxToolCalls |-> Responses(a, k)]]

OutcomeTable == [a \in Agents |-> UNION { ToolOutcomes(n) : n \in Catalog(a) }]

\* ------------------------------------------------------------------- state
VARIABLES
    kind,             \* what the top-level object is
    max_iterations,   \* Agent.max_iterations, per agent
    memory,           \* InMemory._sessions of each agent's memory
    pc,               \* position of each frame
    who,              \* the agent whose invoke a frame runs
    session_id,       \* invoke's argument
    stream,           \* invoke's argument
    messages,         \* local 'messages'
    new_messages,     \* local 'new_messages'
    iteration,        \* loop variable: iterations completed so far
    response,         \* local 'response'
    tasks,            \* the coroutines handed to asyncio.gather
    events,           \* frame 0: the events yielded by the invocation so far;
                      \* a branch: the events yielded by _execute_single_delegation
    ncalls,           \* calls made to the frame's model client in this invocation
    input_text,       \* invoke's argument (the task, in a branch)
    idx               \* Supervisor.invoke: position of 'for tool_call in response.tool_calls'

\* ------------------------------------------------------------ sense network
\* The agents built with SenseMixin (src/bedsheet/sense/mixin.py) and the
\* in-memory hub they share (src/bedsheet/testing.py).  Names, channels and
\* ids are Python str values.
MaxRequests == 2     \* request() calls made over one behaviour
MaxQueue    == 2     \* a signal is broadcast only while every queue it is put on holds fewer signals

SenseAgents == {<<"commander">>, <<"cpu-watcher">>}

\* the agent that calls request(), and the names it may address
Requester      == <<"commander">>
RequestTargets == SenseAgents \cup {<<"nonexistent-agent">>}

\* the channel join_network is given, and claim_incident's default
TasksChannel == <<"tasks">>

\* MockSenseTransport._full_channel, for the one namespace the agents join
Namespace == <<"test-ns">>
full_channel(channel) == <<"bedsheet.">> \o Namespace \o <<".">> \o channel

Channels == { full_channel(c) : c \in {TasksChannel} \cup RequestTargets }

\* uuid4().hex[:12] of the n-th request: every draw is a new id
Uuid(n) == <<"id">> \o ToStr(n)

\* incident ids are chosen by the caller of claim_incident
Incidents == {<<"inc-001">>}

\* an incident named by the text that is the first request's correlation id
\* (the one way a signal that is no response can carry a pending id)
CollidingIncident == Uuid(1)

\* Python's order on the names ('commander' < 'cpu-watcher' < 'nonexistent-agent')
NameOrder == << <<"commander">>, <<"cpu-watcher">>, <<"nonexistent-agent">> >>
StrLess(a, b) ==
    \E i, j \in 1..Len(NameOrder) : NameOrder[i] = a /\ NameOrder[j] = b /\ i < j

Signal(kind_, sender, payload, correlation_id, target) ==
    [kind |-> kind_, sender |-> sender, payload |-> payload,
     correlation_id |-> correlation_id, target |-> target]

\* asyncio.Future
Pending      == [state |-> "pending"]
Done(result) == [state |-> "done", result |-> result]
Cancelled    == [state |-> "cancelled"]

\* how 'async for event in self.invoke(session_id, task)' of _handle_request
\* can end for agent a: with a CompletionEvent, without one (the stream ends
\* with an ErrorEvent), or by raising
InvokeOutcomes(a) ==
    { [kind |-> "completion", response |-> <<"reply of ">> \o a],
      [kind |-> "error_event"],
      Raises(<<"No model_client configured">>) }

\* _handle_request: the local 'result' after the invocation
HandleResult(outcome) ==
    CASE outcome.kind = "completion"  -> outcome.response
      [] outcome.kind = "error_event" -> EmptyStr
      [] outcome.kind = "raise"       -> <<"Error: ">> \o outcome.msg

VARIABLES
    transport,          \* SenseMixin._transport is set, per agent
    queues,             \* _MockSenseHub.queues
    subscriptions,      \* _MockSenseHub.subscriptions
    pending_requests,   \* SenseMixin._pending_requests, per agent: the ids waited for
    claimed_incidents,  \* SenseMixin._claimed_incidents, per agent
    requests,           \* the calls of request(), in the order they were made
    handlers,           \* the tasks created for _handle_request
    claim_calls         \* each agent's call of claim_incident

sense == <<transport, queues, subscriptions, pending_requests, claimed_incidents,
           requests, handlers, claim_calls>>

\* SenseMixin.__init__ and _MockSenseHub.__init__
SenseInit ==
    /\ transport = [a \in SenseAgents |-> FALSE]
    /\ queues = [a \in SenseAgents |-> <<>>]
    /\ subscriptions = [c \in Channels |-> {}]
    /\ pending_requests = [a \in SenseAgents |-> {}]
    /\ claimed_incidents = [a \in SenseAgents |-> {}]
    /\ requests = <<>>
    /\ handlers = {}
    /\ claim_calls = [a \in SenseAgents |-> [pc |-> "idle"]]

\* ------------------------------------------------------------ RedisMemory
\* One RedisMemory (src/bedsheet/memory/redis.py) on a Redis server, used by
\* callers whose add_messages calls may overlap: every await of the client
\* is a point where another call runs.
MaxAdds == 3     \* add_messages calls made over one behaviour

\* RedisMemory._key with the default prefix
_key(sid) == <<"bedsheet:session:">> \o sid

\* the keys of the sessions the calls name
RedisKeys == { _key(s) : s \in Sessions }

\* what GET returns for a key that does not exist
Nil == [json |-> "<nil>", items |-> <<>>]

\* json.dumps([asdict(msg) for msg in messages]): the text of a JSON array of
\* objects with the fields of Message
json_dumps(msgs) == [json |-> "array", items |-> msgs]

\* [Message(**msg) for msg in json.loads(data)]
json_loads(data) == data.items

\* the messages the n-th call is given
AddedMessages(n) == <<Message("user", <<"m">> \o ToStr(n), NoToolCalls, None)>>

VARIABLES
    redis_data,   \* the string values of the Redis server, by key
    add_calls     \* the calls of RedisMemory.add_messages, in the order they were made

redis == <<redis_data, add_calls>>

\* an empty server, no call made
RedisInit ==
    /\ redis_data = [k \in RedisKeys |-> Nil]
    /\ add_calls = <<>>

vars == <<kind, max_iterations, memory, pc, who, session_id,
          stream, messages, new_messages, iteration, response, tasks, events, ncalls,
          input_text, idx, sense, redis>>

config == <<kind, max_iterations>>

\* ------------------------------------------------------------ InMemory
\* InMemory.get_messages
get_messages(mem, sid) == mem[sid]

add_messages_replacing(mem, sid, msgs) == [mem EXCEPT ![sid] = msgs]

\* InMemory.add_messages
add_messages(mem, sid, msgs) == [mem EXCEPT ![sid] = @ \o msgs]

\* messages held by all memories
RECURSIVE StoredIn(_)
StoredIn(S) ==
    IF S = {} THEN 0
    ELSE LET k == CHOOSE x \in S : TRUE IN Len(memory[k[1]][k[2]]) + StoredIn(S \ {k})

Stored == StoredIn(Agents \X AllSessions)

\* a new invocation of agent a on session sid starts only on a short history
\* of plain exchanges, all of it in that session
Resumable(a, sid) ==
    /\ Stored <= MaxHistory
    /\ Stored = Len(memory[a][sid])
    /\ \A i \in 1..Len(memory[a][sid]) : memory[a][sid][i].tool_calls = NoToolCalls

\* tool calls requested so far in the invocation of frame f
RECURSIVE CountCalls(_)
CountCalls(msgs) ==
    IF msgs = <<>> THEN 0
    ELSE TotalCost([i \in 1..Len(msgs[1].tool_calls) |->
                      <<msgs[1].tool_calls[i].name, msgs[1].tool_calls[i].input>>])
         + CountCalls(Tail(msgs))

\* --------------------------------------------------------------- Init
TopName(k) == IF k = "agent" THEN PlainAgent ELSE Manager

Init ==
    /\ kind \in Kinds
    /\ max_iterations = [a \in Agents |-> IF a \in Collaborators THEN 1 ELSE MaxIterations]
    /\ memory = [a \in Agents |-> [s \in AllSessions |-> <<>>]]
    /\ pc = [f \in Frames |-> "idle"]
    /\ who = [f \in Frames |-> TopName(kind)]
    /\ session_id = [f \in Frames |-> <<"s1">>]
    /\ stream = [f \in Frames |-> FALSE]
    /\ messages = [f \in Frames |-> <<>>]
    /\ new_messages = [f \in Frames |-> <<>>]
    /\ iteration = [f \in Frames |-> 0]
    /\ response = [f \in Frames |-> LLMResponse(None, <<>>)]
    /\ tasks = [f \in Frames |-> <<>>]
    /\ events = [f \in Frames |-> <<>>]
    /\ ncalls = [f \in Frames |-> 0]
    /\ input_text = [f \in Frames |-> EmptyStr]
    /\ idx = 0
    /\ SenseInit
    /\ RedisInit

\* ------------------------------------------------ yielding events
\* supervisor.py lines 144-150: the local 'result' of _execute_single_delegation
\* after it has seen the collaborator's events evs
RECURSIVE DelegationResult(_, _)
DelegationResult(result, evs) ==
    IF evs = <<>> THEN result
    ELSE DelegationResult(
            IF evs[1].type = "completion" THEN evs[1].response
            ELSE IF evs[1].type = "error" THEN <<"Error: ">> \o evs[1].error
            ELSE result,
            Tail(evs))

\* the inner events a branch has forwarded so far
RECURSIVE InnerEvents(_)
InnerEvents(evs) ==
    IF evs = <<>> THEN <<>>
    ELSE (IF evs[1].type = "collaborator" THEN <<evs[1].inner_event>> ELSE <<>>)
         \o InnerEvents(Tail(evs))

\* supervisor.py lines 145-152: what _execute_single_delegation yields for
\* the events evs of the collaborator's invoke, and at its end
Forwarded(f, evs, finished) ==
    [i \in 1..Len(evs) |-> CollaboratorEvent(who[f], evs[i])]
    \o (IF finished
        THEN <<CollaboratorCompleteEvent(who[f],
                   DelegationResult(EmptyStr, InnerEvents(events[f]) \o evs))>>
        ELSE <<>>)

\* single and router delegation hand the branch's events on as they come
\* (lines 250-251, 299-300); a parallel batch keeps them (lines 269-272)
Live == pc[0] \in {"await_single", "await_route"}

\* the events after frame f's invoke has yielded evs; finished: the
\* generator ends after them
Yield(f, evs, finished) ==
    IF f = 0
    THEN [events EXCEPT ![0] = @ \o evs]
    ELSE [events EXCEPT ![f] = @ \o Forwarded(f, evs, finished),
                        ![0] = IF Live THEN @ \o Forwarded(f, evs, finished) ELSE @]

\* --------------------------------------------------------------- Agent.invoke
RunsAgent(f) == f > 0 \/ kind = "agent"

Quiescent(f) == pc[f] \in {"idle", "done", "raised"}

\* agent.py lines 103-112: load the history, append the user message
LoadedMessages(a, sid, text) ==
    get_messages(memory[a], sid) \o <<Message("user", text, NoToolCalls, None)>>

\* top-level call of Agent.invoke
invoke(sid, text, strm) ==
    /\ kind = "agent"
    /\ pc[0] \in {"idle", "done"}
    /\ Resumable(who[0], sid)
    /\ messages' = [messages EXCEPT ![0] = LoadedMessages(who[0], sid, text)]
    /\ new_messages' = [new_messages EXCEPT ![0] = <<Message("user", text, NoToolCalls, None)>>]
    /\ input_text' = [input_text EXCEPT ![0] = text]
    /\ session_id' = [session_id EXCEPT ![0] = sid]
    /\ stream' = [stream EXCEPT ![0] = strm]
    /\ iteration' = [iteration EXCEPT ![0] = 0]
    /\ response' = [response EXCEPT ![0] = LLMResponse(None, <<>>)]
    /\ tasks' = [tasks EXCEPT ![0] = <<>>]
    /\ events' = [events EXCEPT ![0] = <<>>]
    /\ ncalls' = [ncalls EXCEPT ![0] = 0]
    /\ pc' = [pc EXCEPT ![0] = "loop"]
    /\ UNCHANGED <<config, sense, redis, memory, who, idx>>

LoopRunsInclusive(f) == iteration[f] <= max_iterations[who[f]]

\* agent.py line 115, supervisor.py line 182: for iteration in range(self.max_iterations)
LoopRuns(f) == iteration[f] < max_iterations[who[f]]

\* agent.py line 117: hasattr(self.model_client, 'chat_stream'); the clients of
\* the repository all have it (llm/base.py, llm/anthropic.py, llm/gemini.py, testing.py)
can_stream(a) == TRUE

TextTokensAlways(f, text) ==
    IF Truthy(text) THEN [i \in 1..Len(text) |-> TextTokenEvent(<<text[i]>>)] ELSE <<>>

\* agent.py lines 117-127: the str chunks of chat_stream become text_token events
TextTokens(f, text) ==
    IF stream[f] /\ can_stream(who[f]) /\ Truthy(text)
    THEN [i \in 1..Len(text) |-> TextTokenEvent(<<text[i]>>)]
    ELSE <<>>

\* agent.py lines 155-162
AssistantToolCallMessage(tool_calls) ==
    Message("assistant", None,
            [i \in 1..Len(tool_calls) |->
                [id |-> tool_calls[i].id, name |-> tool_calls[i].name, input |-> tool_calls[i].input]],
            None)

ToolCallEventsFirstOnly(tool_calls) ==
    <<ToolCallEvent(tool_calls[1].name, tool_calls[1].input, tool_calls[1].id)>>

\* agent.py lines 167-172
ToolCallEvents(tool_calls) ==
    [i \in 1..Len(tool_calls) |->
        ToolCallEvent(tool_calls[i].name, tool_calls[i].input, tool_calls[i].id)]

\* agent.py line 137
NoResponseError == ErrorEvent(<<"No response from LLM">>, FALSE)

MaxIterationsErrorRecoverable(n) ==
    ErrorEvent(<<"Max iterations (">> \o ToStr(n) \o <<") exceeded">>, TRUE)

\* agent.py lines 211-214, supervisor.py lines 353-356
MaxIterationsError(n) == ErrorEvent(<<"Max iterations (">> \o ToStr(n) \o <<") exceeded">>, FALSE)

CompleteTokensLast(f, text, tokens) ==
    LET assistant_message == Message("assistant", text, NoToolCalls, None)
    IN /\ messages' = [messages EXCEPT ![f] = Append(@, assistant_message)]
       /\ new_messages' = [new_messages EXCEPT ![f] = Append(@, assistant_message)]
       /\ memory' = [memory EXCEPT ![who[f]] =
                        add_messages(@, session_id[f], Append(new_messages[f], assistant_message))]
       /\ events' = Yield(f, <<CompletionEvent(text)>> \o tokens, TRUE)
       /\ pc' = [pc EXCEPT ![f] = "done"]

\* agent.py lines 141-150: the final text is appended, the new messages are
\* saved, then the completion event is yielded
Complete(f, text, tokens) ==
    LET assistant_message == Message("assistant", text, NoToolCalls, None)
    IN /\ messages' = [messages EXCEPT ![f] = Append(@, assistant_message)]
       /\ new_messages' = [new_messages EXCEPT ![f] = Append(@, assistant_message)]
       /\ memory' = [memory EXCEPT ![who[f]] =
                        add_messages(@, session_id[f], Append(new_messages[f], assistant_message))]
       /\ events' = Yield(f, tokens \o <<CompletionEvent(text)>>, TRUE)
       /\ pc' = [pc EXCEPT ![f] = "done"]

\* agent.py lines 115-172: one model call and the handling of its response
chat(f, resp) ==
    /\ RunsAgent(f)
    /\ pc[f] = "loop"
    /\ LoopRuns(f)
    /\ ncalls' = [ncalls EXCEPT ![f] = @ + 1]
    /\ response' = [response EXCEPT ![f] = resp]
    /\ LET tokens == TextTokens(f, resp.text)
       IN IF "absent" \in DOMAIN resp
          THEN \* lines 136-138
               /\ events' = Yield(f, tokens \o <<NoResponseError>>, TRUE)
               /\ pc' = [pc EXCEPT ![f] = "done"]
               /\ UNCHANGED <<messages, new_messages, memory, tasks, iteration>>
          ELSE IF Truthy(resp.text) /\ resp.tool_calls = <<>>
          THEN /\ Complete(f, resp.text, tokens)
               /\ UNCHANGED <<tasks, iteration>>
          ELSE IF resp.tool_calls # <<>>
          THEN \* lines 153-187
               /\ messages' = [messages EXCEPT ![f] = Append(@, AssistantToolCallMessage(resp.tool_calls))]
               /\ new_messages' = [new_messages EXCEPT ![f] = Append(@, AssistantToolCallMessage(resp.tool_calls))]
               /\ events' = Yield(f, tokens \o ToolCallEvents(resp.tool_calls), FALSE)
               /\ tasks' = [tasks EXCEPT ![f] =
                              [i \in 1..Len(resp.tool_calls) |-> [st |-> "scheduled", out |-> None]]]
               /\ pc' = [pc EXCEPT ![f] = "gather"]
               /\ UNCHANGED <<memory, iteration>>
          ELSE \* neither text nor tool calls: the for loop goes to its next iteration
               /\ events' = Yield(f, tokens, FALSE)
               /\ iteration' = [iteration EXCEPT ![f] = @ + 1]
               /\ UNCHANGED <<messages, new_messages, memory, tasks, pc>>
    /\ UNCHANGED <<config, sense, redis, who, session_id, stream, input_text, idx>>

execute_tool_first_id(a, tool_call, outcome) ==
    IF get_action(a, tool_call.name) = None
    THEN <<CallId(1), PyNone, <<"Unknown action: ", tool_call.name>> >>
    ELSE IF outcome.kind = "return"
    THEN <<CallId(1), outcome.value, None>>
    ELSE <<CallId(1), PyNone, outcome.msg>>

execute_tool_unnamed(a, tool_call, outcome) ==
    IF get_action(a, tool_call.name) = None
    THEN <<tool_call.id, PyNone, <<"Unknown action">> >>
    ELSE IF outcome.kind = "return"
    THEN <<tool_call.id, outcome.value, None>>
    ELSE <<tool_call.id, PyNone, outcome.msg>>

execute_tool_silent(a, tool_call, outcome) ==
    IF get_action(a, tool_call.name) = None
    THEN <<tool_call.id, PyNone, <<"Unknown action: ", tool_call.name>> >>
    ELSE IF outcome.kind = "return"
    THEN <<tool_call.id, outcome.value, None>>
    ELSE <<tool_call.id, PyNone, None>>

\* agent.py lines 175-183: the triple execute_tool returns
execute_tool(a, tool_call, outcome) ==
    IF get_action(a, tool_call.name) = None
    THEN <<tool_call.id, PyNone, <<"Unknown action: ", tool_call.name>> >>
    ELSE IF outcome.kind = "return"
    THEN <<tool_call.id, outcome.value, None>>
    ELSE <<tool_call.id, PyNone, outcome.msg>>

\* a task of the gather starts running: it returns at once for an unknown
\* action, else it awaits action.fn.  Tasks start in the order gather made them.
execute_tool_start(f, i) ==
    /\ RunsAgent(f)
    /\ pc[f] = "gather"
    /\ i \in 1..Len(tasks[f])
    /\ tasks[f][i].st = "scheduled"
    /\ \A j \in 1..(i - 1) : tasks[f][j].st # "scheduled"
    /\ tasks' = [tasks EXCEPT ![f][i] =
                    IF get_action(who[f], response[f].tool_calls[i].name) = None
                    THEN [st |-> "done", out |-> execute_tool(who[f], response[f].tool_calls[i], None)]
                    ELSE [st |-> "running", out |-> None]]
    /\ UNCHANGED <<config, sense, redis, memory, pc, who, session_id, stream, messages, new_messages,
                   iteration, response, events, ncalls, input_text, idx>>

\* action.fn returns or raises
execute_tool_finish(f, i, outcome) ==
    /\ RunsAgent(f)
    /\ pc[f] = "gather"
    /\ i \in 1..Len(tasks[f])
    /\ tasks[f][i].st = "running"
    /\ outcome \in ToolOutcomes(response[f].tool_calls[i].name)
    /\ tasks' = [tasks EXCEPT ![f][i] =
                    [st |-> "done", out |-> execute_tool(who[f], response[f].tool_calls[i], outcome)]]
    /\ UNCHANGED <<config, sense, redis, memory, pc, who, session_id, stream, messages, new_messages,
                   iteration, response, events, ncalls, input_text, idx>>

\* agent.py lines 197-200
ToolResultContent(result, error) ==
    IF Truthy(error) THEN <<"Error: ">> \o error
    ELSE IF result.t = "str" THEN result.v ELSE JsonDumps(result)

\* agent.py lines 202-206
ToolResultMessage(call_id, result, error) ==
    Message("tool_result", ToolResultContent(result, error), NoToolCalls, call_id)

gather_done_reversed(f) ==
    /\ RunsAgent(f)
    /\ pc[f] = "gather"
    /\ \A i \in 1..Len(tasks[f]) : tasks[f][i].st = "done"
    /\ LET results == [i \in 1..Len(tasks[f]) |-> tasks[f][Len(tasks[f]) + 1 - i].out]
           msgs == [i \in 1..Len(results) |->
                       ToolResultMessage(results[i][1], results[i][2], results[i][3])]
       IN /\ events' = Yield(f, [i \in 1..Len(results) |->
                                   ToolResultEvent(results[i][1], results[i][2], results[i][3])], FALSE)
          /\ messages' = [messages EXCEPT ![f] = @ \o msgs]
          /\ new_messages' = [new_messages EXCEPT ![f] = @ \o msgs]
    /\ tasks' = [tasks EXCEPT ![f] = <<>>]
    /\ iteration' = [iteration EXCEPT ![f] = @ + 1]
    /\ pc' = [pc EXCEPT ![f] = "loop"]
    /\ UNCHANGED <<config, sense, redis, memory, who, session_id, stream, response, ncalls, input_text, idx>>

gather_done_partial(f) ==
    /\ RunsAgent(f)
    /\ pc[f] = "gather"
    /\ \E i \in 1..Len(tasks[f]) : tasks[f][i].st = "done"
    /\ LET IsDone(t) == t.st = "done"
           finished == SelectSeq(tasks[f], IsDone)
           results == [i \in 1..Len(finished) |-> finished[i].out]
           msgs == [i \in 1..Len(results) |->
                       ToolResultMessage(results[i][1], results[i][2], results[i][3])]
       IN /\ events' = Yield(f, [i \in 1..Len(results) |->
                                   ToolResultEvent(results[i][1], results[i][2], results[i][3])], FALSE)
          /\ messages' = [messages EXCEPT ![f] = @ \o msgs]
          /\ new_messages' = [new_messages EXCEPT ![f] = @ \o msgs]
    /\ tasks' = [tasks EXCEPT ![f] = <<>>]
    /\ iteration' = [iteration EXCEPT ![f] = @ + 1]
    /\ pc' = [pc EXCEPT ![f] = "loop"]
    /\ UNCHANGED <<config, sense, redis, memory, who, session_id, stream, response, ncalls, input_text, idx>>

\* agent.py lines 185-208: gather returns the triples in the order of the
\* calls; each becomes a tool_result event and a tool_result message
gather_done(f) ==
    /\ RunsAgent(f)
    /\ pc[f] = "gather"
    /\ \A i \in 1..Len(tasks[f]) : tasks[f][i].st = "done"
    /\ LET results == [i \in 1..Len(tasks[f]) |-> tasks[f][i].out]
           msgs == [i \in 1..Len(results) |->
                       ToolResultMessage(results[i][1], results[i][2], results[i][3])]
       IN /\ events' = Yield(f, [i \in 1..Len(results) |->
                                   ToolResultEvent(results[i][1], results[i][2], results[i][3])], FALSE)
          /\ messages' = [messages EXCEPT ![f] = @ \o msgs]
          /\ new_messages' = [new_messages EXCEPT ![f] = @ \o msgs]
    /\ tasks' = [tasks EXCEPT ![f] = <<>>]
    /\ iteration' = [iteration EXCEPT ![f] = @ + 1]
    /\ pc' = [pc EXCEPT ![f] = "loop"]
    /\ UNCHANGED <<config, sense, redis, memory, who, session_id, stream, response, ncalls, input_text, idx>>

max_iterations_exceeded_persisting(f) ==
    /\ RunsAgent(f)
    /\ pc[f] = "loop"
    /\ ~LoopRuns(f)
    /\ events' = Yield(f, <<MaxIterationsError(max_iterations[who[f]])>>, TRUE)
    /\ memory' = [memory EXCEPT ![who[f]] = add_messages(@, session_id[f], new_messages[f])]
    /\ pc' = [pc EXCEPT ![f] = "done"]
    /\ UNCHANGED <<config, sense, redis, who, session_id, stream, messages, new_messages,
                   iteration, response, tasks, ncalls, input_text, idx>>

\* agent.py lines 210-214: the for loop has run max_iterations times
max_iterations_exceeded(f) ==
    /\ RunsAgent(f)
    /\ pc[f] = "loop"
    /\ ~LoopRuns(f)
    /\ events' = Yield(f, <<MaxIterationsError(max_iterations[who[f]])>>, TRUE)
    /\ pc' = [pc EXCEPT ![f] = "done"]
    /\ UNCHANGED <<config, sense, redis, memory, who, session_id, stream, messages, new_messages,
                   iteration, response, tasks, ncalls, input_text, idx>>

\* what the model may still request in frame f
Budget(f) ==
    LET left == MaxToolCalls - CountCalls(new_messages[f])
    IN IF left < 0 THEN 0 ELSE left

AgentStep(f) ==
    \/ /\ RunsAgent(f) /\ pc[f] = "loop"
       /\ \E resp \in ResponseTable[who[f]][Budget(f)] : chat(f, resp)
    \/ \E i \in 1..MaxToolCalls : execute_tool_start(f, i)
    \/ /\ RunsAgent(f) /\ pc[f] = "gather"
       /\ \E i \in 1..MaxToolCalls, o \in OutcomeTable[who[f]] : execute_tool_finish(f, i, o)
    \/ gather_done(f)
    \/ max_iterations_exceeded(f)

\* ----------------------------------------------------------- Supervisor.invoke
\* top-level call of Supervisor.invoke (supervisor.py lines 174-180)
sup_invoke(sid, text, strm) ==
    /\ kind # "agent"
    /\ pc[0] \in {"idle", "done", "raised"}
    /\ \A b \in Branches : Quiescent(b)
    /\ Resumable(who[0], sid)
    /\ messages' = [f \in Frames |-> IF f = 0 THEN LoadedMessages(who[0], sid, text) ELSE <<>>]
    /\ new_messages' = [f \in Frames |->
                          IF f = 0 THEN <<Message("user", text, NoToolCalls, None)>> ELSE <<>>]
    /\ input_text' = [f \in Frames |-> IF f = 0 THEN text ELSE EmptyStr]
    /\ session_id' = [f \in Frames |-> sid]
    /\ stream' = [f \in Frames |-> strm]
    /\ iteration' = [f \in Frames |-> 0]
    /\ response' = [f \in Frames |-> LLMResponse(None, <<>>)]
    /\ tasks' = [f \in Frames |-> <<>>]
    /\ events' = [f \in Frames |-> <<>>]
    /\ ncalls' = [f \in Frames |-> 0]
    /\ who' = [f \in Frames |-> who[0]]
    /\ idx' = 0
    /\ pc' = [f \in Frames |-> IF f = 0 THEN "loop" ELSE "idle"]
    /\ UNCHANGED <<config, sense, redis, memory>>

\* after the handling of tool call idx: the next call of the response, or
\* the next iteration of the loop
Advance ==
    IF idx < Len(response[0].tool_calls)
    THEN /\ idx' = idx + 1
         /\ pc' = [pc EXCEPT ![0] = "proc"]
         /\ UNCHANGED iteration
    ELSE /\ idx' = 0
         /\ pc' = [pc EXCEPT ![0] = "loop"]
         /\ iteration' = [iteration EXCEPT ![0] = @ + 1]

\* supervisor.py lines 182-216: one model call and the handling of its response
sup_chat(resp) ==
    /\ kind # "agent"
    /\ pc[0] = "loop"
    /\ LoopRuns(0)
    /\ ncalls' = [ncalls EXCEPT ![0] = @ + 1]
    /\ response' = [response EXCEPT ![0] = resp]
    /\ IF "absent" \in DOMAIN resp
       THEN \* line 189 reads response.text of None: AttributeError
            /\ pc' = [pc EXCEPT ![0] = "raised"]
            /\ UNCHANGED <<messages, new_messages, memory, events, iteration, idx>>
       ELSE IF Truthy(resp.text) /\ resp.tool_calls = <<>>
       THEN \* lines 189-197
            /\ Complete(0, resp.text, <<>>)
            /\ UNCHANGED <<iteration, idx>>
       ELSE IF resp.tool_calls # <<>>
       THEN \* lines 199-216
            /\ messages' = [messages EXCEPT ![0] = Append(@, AssistantToolCallMessage(resp.tool_calls))]
            /\ new_messages' = [new_messages EXCEPT ![0] = Append(@, AssistantToolCallMessage(resp.tool_calls))]
            /\ events' = Yield(0, ToolCallEvents(resp.tool_calls), FALSE)
            /\ idx' = 1
            /\ pc' = [pc EXCEPT ![0] = "proc"]
            /\ UNCHANGED <<memory, iteration>>
       ELSE /\ iteration' = [iteration EXCEPT ![0] = @ + 1]
            /\ UNCHANGED <<messages, new_messages, memory, events, pc, idx>>
    /\ UNCHANGED <<config, sense, redis, who, session_id, stream, tasks, input_text>>

UnknownAgentErrorUnnamed(agent_name) ==
    <<"Unknown agent. Available: ", "['FinanceAgent', 'ResearchAgent', 'DraftAgent']">>

\* f"Unknown agent: {agent_name}. Available: {list(self.collaborators.keys())}"
UnknownAgentError(agent_name) ==
    <<"Unknown agent: ", agent_name, ". Available: ", "['FinanceAgent', 'ResearchAgent', 'DraftAgent']">>

\* the tool call has its result: event, message, on to the next call
\* (supervisor.py lines 230-243, 307-319, 334-351)
sup_result(event, content) ==
    LET msg == Message("tool_result", content, NoToolCalls, response[0].tool_calls[idx].id)
    IN /\ events' = Yield(0, <<event>>, FALSE)
       /\ messages' = [messages EXCEPT ![0] = Append(@, msg)]
       /\ new_messages' = [new_messages EXCEPT ![0] = Append(@, msg)]
       /\ Advance

\* the branches of the delegation records ds are handed to the event loop;
\* announce: what the supervisor yields before
sup_delegate(ds, announce, waiting) ==
    /\ events' = [f \in Frames |-> IF f = 0 THEN events[0] \o announce ELSE <<>>]
    /\ pc' = [f \in Frames |-> IF f = 0 THEN waiting
                               ELSE IF f <= Len(ds) THEN "scheduled" ELSE "idle"]
    /\ who' = [f \in Frames |-> IF f \in 1..Len(ds) THEN ds[f].agent_name ELSE who[0]]
    /\ input_text' = [f \in Frames |-> IF f \in 1..Len(ds) THEN ds[f].task
                                       ELSE IF f = 0 THEN input_text[0] ELSE EmptyStr]
    /\ session_id' = [f \in Frames |->
                        IF f \in 1..Len(ds) THEN DerivedSession(session_id[0], ds[f].agent_name)
                        ELSE session_id[0]]
    /\ messages' = [f \in Frames |-> IF f = 0 THEN messages[0] ELSE <<>>]
    /\ new_messages' = [f \in Frames |-> IF f = 0 THEN new_messages[0] ELSE <<>>]
    /\ iteration' = [f \in Frames |-> IF f = 0 THEN iteration[0] ELSE 0]
    /\ response' = [f \in Frames |-> IF f = 0 THEN response[0] ELSE LLMResponse(None, <<>>)]
    /\ ncalls' = [f \in Frames |-> IF f = 0 THEN ncalls[0] ELSE 0]
    /\ UNCHANGED <<idx, tasks>>

IsDelegateCallNever(tool_call) == FALSE

\* supervisor.py line 220: if tool_call.name == "delegate"
IsDelegateCall(tool_call) == tool_call.name = "delegate"

\* supervisor.py lines 219-332: the next tool call of the response is taken up
sup_dispatch ==
    /\ kind # "agent"
    /\ pc[0] = "proc"
    /\ \A b \in Branches : Quiescent(b)
    /\ LET tool_call == response[0].tool_calls[idx]
           delegations_input == Get(tool_call.input, "delegations", <<>>)
           agent_name == Get(tool_call.input, "agent_name", "")
           task == Get(tool_call.input, "task", EmptyStr)
       IN IF IsDelegateCall(tool_call)
          THEN IF kind = "router" /\ delegations_input = <<>>
               THEN IF agent_name = "" \/ agent_name \notin Collaborators
                    THEN \* lines 229-243
                         /\ sup_result(ToolResultEvent(tool_call.id, PyNone, UnknownAgentError(agent_name)),
                                       UnknownAgentError(agent_name))
                         /\ UNCHANGED <<who, session_id, stream, response, ncalls, input_text>>
                    ELSE \* lines 245-250
                         /\ sup_delegate(<<[agent_name |-> agent_name, task |-> task]>>,
                                         <<RoutingEvent(agent_name, task)>>, "await_route")
                         /\ UNCHANGED stream
               ELSE IF delegations_input # <<>>
               THEN \* lines 260-276
                    /\ sup_delegate(delegations_input, <<DelegationEvent(delegations_input)>>,
                                    "await_gather")
                    /\ UNCHANGED stream
               ELSE IF agent_name = "" \/ agent_name \notin Collaborators
                    THEN \* lines 294-296, 307-319
                         /\ sup_result(ToolResultEvent(tool_call.id, PyNone, UnknownAgentError(agent_name)),
                                       UnknownAgentError(agent_name))
                         /\ UNCHANGED <<who, session_id, stream, response, ncalls, input_text>>
                    ELSE \* lines 297-299
                         /\ sup_delegate(<<[agent_name |-> agent_name, task |-> task]>>,
                                         <<>>, "await_single")
                         /\ UNCHANGED stream
          ELSE IF get_action(who[0], tool_call.name) = None
               THEN \* lines 322-325, 334-351
                    LET r == execute_tool(who[0], tool_call, None)
                    IN /\ sup_result(ToolResultEvent(r[1], r[2], r[3]),
                                     ToolResultContent(r[2], r[3]))
                       /\ UNCHANGED <<who, session_id, stream, response, ncalls, input_text>>
               ELSE \* line 328: await action.fn(**tool_call.input)
                    /\ pc' = [pc EXCEPT ![0] = "await_tool"]
                    /\ UNCHANGED <<who, session_id, stream, response, ncalls, input_text,
                                   events, messages, new_messages, idx, iteration>>
    /\ UNCHANGED <<config, sense, redis, memory, tasks>>

\* supervisor.py lines 327-351: the awaited tool returns or raises
sup_tool_return(outcome) ==
    /\ kind # "agent"
    /\ pc[0] = "await_tool"
    /\ outcome \in ToolOutcomes(response[0].tool_calls[idx].name)
    /\ LET r == execute_tool(who[0], response[0].tool_calls[idx], outcome)
       IN sup_result(ToolResultEvent(r[1], r[2], r[3]), ToolResultContent(r[2], r[3]))
    /\ UNCHANGED <<config, sense, redis, memory, who, session_id, stream, response, tasks, ncalls, input_text>>

\* supervisor.py lines 137-146: _execute_single_delegation starts to run:
\* lookup of the collaborator, collaborator_start, and the collaborator's
\* invoke up to its first model call (agent.py lines 96-112)
branch_start(b) ==
    /\ b \in Branches
    /\ pc[b] = "scheduled"
    /\ \A j \in 1..(b - 1) : pc[j] # "scheduled"
    /\ IF who[b] \notin Collaborators
       THEN \* line 140: it returns without an event
            /\ pc' = [pc EXCEPT ![b] = "done"]
            /\ UNCHANGED <<events, messages, new_messages>>
       ELSE /\ events' = [events EXCEPT
                            ![b] = @ \o <<CollaboratorStartEvent(who[b], input_text[b])>>,
                            ![0] = IF Live THEN @ \o <<CollaboratorStartEvent(who[b], input_text[b])>>
                                   ELSE @]
            /\ IF has_client(who[b])
               THEN /\ messages' = [messages EXCEPT ![b] =
                                      LoadedMessages(who[b], session_id[b], input_text[b])]
                    /\ new_messages' = [new_messages EXCEPT ![b] =
                                      <<Message("user", input_text[b], NoToolCalls, None)>>]
                    /\ pc' = [pc EXCEPT ![b] = "loop"]
               ELSE \* agent.py lines 96-101: RuntimeError
                    /\ pc' = [pc EXCEPT ![b] = "raised"]
                    /\ UNCHANGED <<messages, new_messages>>
    /\ UNCHANGED <<config, sense, redis, memory, who, session_id, stream, iteration, response, tasks,
                   ncalls, input_text, idx>>

\* the response of the last collaborator_complete event among evs
\* (supervisor.py lines 252-253, 301-302), from the initial value r
RECURSIVE CompleteResponse(_, _)
CompleteResponse(r, evs) ==
    IF evs = <<>> THEN r
    ELSE CompleteResponse(IF evs[1].type = "collaborator_complete" THEN evs[1].response ELSE r,
                          Tail(evs))

\* supervisor.py lines 298-319: a single delegation has ended
sup_single_done ==
    /\ kind # "agent"
    /\ pc[0] = "await_single"
    /\ pc[1] = "done"
    /\ LET content == CompleteResponse(EmptyStr, events[1])
       IN sup_result(ToolResultEvent(response[0].tool_calls[idx].id, PyStr(content), None), content)
    /\ UNCHANGED <<config, sense, redis, memory, who, session_id, stream, response, tasks, ncalls, input_text>>

\* supervisor.py lines 249-258: the routed collaborator has ended: the new
\* messages are saved and its response is the completion
sup_route_done ==
    /\ kind # "agent"
    /\ pc[0] = "await_route"
    /\ pc[1] = "done"
    /\ memory' = [memory EXCEPT ![who[0]] = add_messages(@, session_id[0], new_messages[0])]
    /\ events' = Yield(0, <<CompletionEvent(CompleteResponse(EmptyStr, events[1]))>>, TRUE)
    /\ pc' = [pc EXCEPT ![0] = "done"]
    /\ UNCHANGED <<config, sense, redis, who, session_id, stream, messages, new_messages, iteration,
                   response, tasks, ncalls, input_text, idx>>

\* results[agent_name] = event.response on a dict kept in insertion order
DictSet(d, k, v) ==
    IF \E i \in 1..Len(d) : d[i][1] = k
    THEN [i \in 1..Len(d) |-> IF d[i][1] = k THEN <<k, v>> ELSE d[i]]
    ELSE Append(d, <<k, v>>)

RECURSIVE GatheredEventsReversed(_, _)
GatheredEventsReversed(b, n) == IF b > n THEN <<>> ELSE GatheredEventsReversed(b + 1, n) \o events[b]

\* supervisor.py lines 279-283: the events of the branches in the order of
\* the batch, and the results they leave
RECURSIVE GatheredEvents(_, _)
GatheredEvents(b, n) == IF b > n THEN <<>> ELSE events[b] \o GatheredEvents(b + 1, n)

RECURSIVE GatheredResults(_, _, _)
GatheredResults(d, b, n) ==
    IF b > n THEN d
    ELSE GatheredResults(
            IF \E i \in 1..Len(events[b]) : events[b][i].type = "collaborator_complete"
            THEN DictSet(d, who[b], CompleteResponse(EmptyStr, events[b]))
            ELSE d,
            b + 1, n)

sup_gather_done_early ==
    /\ kind # "agent"
    /\ pc[0] = "await_gather"
    /\ LET n == Len(response[0].tool_calls[idx].input.delegations)
           content == JsonDumpsDict(GatheredResults(<<>>, 1, n))
       IN /\ \E b \in 1..n : pc[b] = "done"
          /\ LET msg == Message("tool_result", content, NoToolCalls, response[0].tool_calls[idx].id)
             IN /\ events' = [events EXCEPT ![0] =
                                 @ \o GatheredEvents(1, n)
                                   \o <<ToolResultEvent(response[0].tool_calls[idx].id, PyStr(content), None)>>]
                /\ messages' = [messages EXCEPT ![0] = Append(@, msg)]
                /\ new_messages' = [new_messages EXCEPT ![0] = Append(@, msg)]
                /\ Advance
    /\ UNCHANGED <<config, sense, redis, memory, who, session_id, stream, response, tasks, ncalls, input_text>>

\* supervisor.py lines 276-319: every branch of the batch has ended
sup_gather_done ==
    /\ kind # "agent"
    /\ pc[0] = "await_gather"
    /\ LET n == Len(response[0].tool_calls[idx].input.delegations)
           content == JsonDumpsDict(GatheredResults(<<>>, 1, n))
       IN /\ \A b \in 1..n : pc[b] = "done"
          /\ LET msg == Message("tool_result", content, NoToolCalls, response[0].tool_calls[idx].id)
             IN /\ events' = [events EXCEPT ![0] =
                                 @ \o GatheredEvents(1, n)
                                   \o <<ToolResultEvent(response[0].tool_calls[idx].id, PyStr(content), None)>>]
                /\ messages' = [messages EXCEPT ![0] = Append(@, msg)]
                /\ new_messages' = [new_messages EXCEPT ![0] = Append(@, msg)]
                /\ Advance
    /\ UNCHANGED <<config, sense, redis, memory, who, session_id, stream, response, tasks, ncalls, input_text>>

\* an exception of a branch leaves Supervisor.invoke: nothing catches it
\* (lines 250, 276, 299)
sup_raise ==
    /\ kind # "agent"
    /\ pc[0] \in {"await_single", "await_route", "await_gather"}
    /\ \E b \in Branches : pc[b] = "raised"
    /\ pc' = [pc EXCEPT ![0] = "raised"]
    /\ UNCHANGED <<config, sense, redis, memory, who, session_id, stream, messages, new_messages, iteration,
                   response, tasks, events, ncalls, input_text, idx>>

\* supervisor.py lines 353-356
sup_max_iterations_exceeded ==
    /\ kind # "agent"
    /\ pc[0] = "loop"
    /\ ~LoopRuns(0)
    /\ events' = Yield(0, <<MaxIterationsError(max_iterations[who[0]])>>, TRUE)
    /\ pc' = [pc EXCEPT ![0] = "done"]
    /\ UNCHANGED <<config, sense, redis, memory, who, session_id, stream, messages, new_messages,
                   iteration, response, tasks, ncalls, input_text, idx>>

SupervisorStep ==
    \/ /\ kind # "agent" /\ pc[0] = "loop"
       /\ \E resp \in ResponseTable[who[0]][Budget(0)] : sup_chat(resp)
    \/ sup_dispatch
    \/ \E o \in OutcomeTable[Manager] : sup_tool_return(o)
    \/ \E b \in Branches : branch_start(b)
    \/ sup_single_done
    \/ sup_route_done
    \/ sup_gather_done
    \/ sup_raise
    \/ sup_max_iterations_exceeded

Next ==
    \/ \E sid \in InvokedSessions, txt \in InputTexts, strm \in BOOLEAN : invoke(sid, txt, strm)
    \/ \E sid \in InvokedSessions, txt \in InputTexts, strm \in BOOLEAN : sup_invoke(sid, txt, strm)
    \/ \E f \in Frames : AgentStep(f)
    \/ SupervisorStep

Spec == Init /\ [][Next]_vars

\* ===================================================== the sense network
\* the variables of the orchestration engine, which no operation of the
\* sense network touches
engine == <<kind, max_iterations, memory, pc, who, session_id,
            stream, messages, new_messages, iteration, response, tasks, events, ncalls,
            input_text, idx>>

\* 'if signal.target' / 'if incident_id'
Falsy(s) == ~Truthy(s)

\* _MockSenseHub.broadcast: the queues once the signal is put on the queue of
\* every subscriber of the channel
hub_broadcast(qs, channel, signal) ==
    [a \in SenseAgents |->
        IF channel \in DOMAIN subscriptions /\ a \in subscriptions[channel]
        THEN Append(qs[a], signal) ELSE qs[a]]

\* the queues the channel reaches have room for one more signal
Room(channel) == \A a \in subscriptions[channel] : Len(queues[a]) < MaxQueue

\* SenseMixin.broadcast raises when the agent has no transport
NotConnected == <<"Not connected to a network. Call join_network() first.">>

\* SenseMixin.join_network(transport, namespace, ["tasks"]).  The signal loop
\* it starts is signal_loop below; the heartbeat it starts broadcasts on a
\* channel no agent subscribes to.
join_network(a) ==
    /\ ~transport[a]
    /\ transport' = [transport EXCEPT ![a] = TRUE]
    /\ queues' = [queues EXCEPT ![a] = <<>>]
    /\ subscriptions' =
          [c \in Channels |->
              IF c \in {full_channel(TasksChannel), full_channel(a)}
              THEN subscriptions[c] \cup {a} ELSE subscriptions[c]]
    /\ UNCHANGED <<pending_requests, claimed_incidents, requests, handlers, claim_calls, engine, redis>>

\* SenseMixin.leave_network: both tasks are cancelled, MockSenseTransport.disconnect
leave_network(a) ==
    /\ transport[a]
    /\ subscriptions' = [c \in Channels |-> subscriptions[c] \ {a}]
    /\ queues' = [queues EXCEPT ![a] = <<>>]
    /\ transport' = [transport EXCEPT ![a] = FALSE]
    /\ UNCHANGED <<pending_requests, claimed_incidents, requests, handlers, claim_calls, engine, redis>>

\* SenseMixin.request, up to the point where it awaits the future
request(a, agent_name, task) ==
    /\ Len(requests) < MaxRequests
    /\ Room(full_channel(agent_name))
    /\ LET correlation_id == Uuid(Len(requests) + 1)
           signal == Signal("request", a, [task |-> task], correlation_id, agent_name)
           call == [caller |-> a, agent_name |-> agent_name, task |-> task,
                    correlation_id |-> correlation_id, future |-> Pending,
                    pc |-> "waiting", result |-> None, error |-> None]
       IN /\ pending_requests' = [pending_requests EXCEPT ![a] = @ \cup {correlation_id}]
          /\ IF transport[a]
             THEN /\ queues' = hub_broadcast(queues, full_channel(agent_name), signal)
                  /\ requests' = Append(requests, call)
             ELSE \* send_to raises before the try block is entered
                  /\ requests' = Append(requests,
                                        [call EXCEPT !.pc = "raised",
                                                     !.error = <<"RuntimeError: ">> \o NotConnected])
                  /\ UNCHANGED queues
    /\ UNCHANGED <<transport, subscriptions, claimed_incidents, handlers, claim_calls, engine, redis>>

\* SenseMixin.request: wait_for returns the response signal
request_return(i) ==
    /\ requests[i].pc = "waiting"
    /\ requests[i].future.state = "done"
    /\ requests' = [requests EXCEPT ![i].pc = "returned",
                                    ![i].result = Get(requests[i].future.result.payload,
                                                      "result", EmptyStr)]
    /\ pending_requests' =
          [pending_requests EXCEPT ![requests[i].caller] = @ \ {requests[i].correlation_id}]
    /\ UNCHANGED <<transport, queues, subscriptions, claimed_incidents, handlers, claim_calls, engine, redis>>

\* SenseMixin.request: wait_for gives up on a future that is not done
request_timeout(i) ==
    /\ requests[i].pc = "waiting"
    /\ requests[i].future.state = "pending"
    /\ requests' = [requests EXCEPT ![i].pc = "timeout",
                                    ![i].future = Cancelled,
                                    ![i].error = <<"TimeoutError: No response from '">>
                                                 \o requests[i].agent_name
                                                 \o <<"' within ", "30.0", "s">>]
    /\ pending_requests' =
          [pending_requests EXCEPT ![requests[i].caller] = @ \ {requests[i].correlation_id}]
    /\ UNCHANGED <<transport, queues, subscriptions, claimed_incidents, handlers, claim_calls, engine, redis>>

IsResponseOfAnyKind(a, signal) ==
    signal.correlation_id \in pending_requests[a]

\* _signal_loop: the signal is taken as the response to a pending request
IsResponse(a, signal) ==
    signal.kind = "response" /\ signal.correlation_id \in pending_requests[a]

\* future.set_result(signal) on the future stored under the signal's correlation id
set_result(rs, a, signal) ==
    [i \in 1..Len(rs) |->
        IF /\ rs[i].caller = a
           /\ rs[i].correlation_id = signal.correlation_id
           /\ rs[i].future.state = "pending"
        THEN [rs[i] EXCEPT !.future = Done(signal)]
        ELSE rs[i]]

\* SenseMixin._handle_claim: the agent's claimed incidents after the signal
handle_claim(a, signal) ==
    LET incident_id == Get(signal.payload, "incident_id", None)
    IN  IF Falsy(incident_id) THEN claimed_incidents[a]
        ELSE IF incident_id \in claimed_incidents[a] /\ StrLess(signal.sender, a)
             THEN claimed_incidents[a] \ {incident_id}
             ELSE claimed_incidents[a]

\* the release branch of _signal_loop
handle_release(a, signal) ==
    LET incident_id == Get(signal.payload, "incident_id", None)
    IN  IF Falsy(incident_id) THEN claimed_incidents[a]
        ELSE claimed_incidents[a] \ {incident_id}

\* one turn of 'async for signal in self._transport.signals()' in _signal_loop
signal_loop(a) ==
    /\ transport[a]
    /\ queues[a] # <<>>
    /\ LET signal == Head(queues[a])
       IN /\ queues' = [queues EXCEPT ![a] = Tail(@)]
          /\ IF signal.sender = a
                \/ (Truthy(signal.target) /\ signal.target # a)
             THEN UNCHANGED <<requests, handlers, claimed_incidents>>
             ELSE IF IsResponse(a, signal)
             THEN /\ requests' = set_result(requests, a, signal)
                  /\ UNCHANGED <<handlers, claimed_incidents>>
             ELSE IF signal.kind = "request"
             THEN /\ handlers' = handlers \cup {[agent |-> a, signal |-> signal,
                                                 pc |-> "invoking", outcome |-> [kind |-> "running"],
                                                 result |-> None]}
                  /\ UNCHANGED <<requests, claimed_incidents>>
             ELSE IF signal.kind = "claim"
             THEN /\ claimed_incidents' = [claimed_incidents EXCEPT ![a] = handle_claim(a, signal)]
                  /\ UNCHANGED <<requests, handlers>>
             ELSE IF signal.kind = "release"
             THEN /\ claimed_incidents' = [claimed_incidents EXCEPT ![a] = handle_release(a, signal)]
                  /\ UNCHANGED <<requests, handlers>>
             ELSE \* no handler is registered with on_signal
                  UNCHANGED <<requests, handlers, claimed_incidents>>
    /\ UNCHANGED <<transport, subscriptions, pending_requests, claim_calls, engine, redis>>

\* SenseMixin._handle_request: the invocation ends and the response is sent
handle_request(a, outcome) ==
    \E h \in handlers :
    /\ h.agent = a
    /\ h.pc = "invoking"
    /\ Room(full_channel(h.signal.sender))
    /\ LET result == HandleResult(outcome)
           response_signal == Signal("response", h.agent, [result |-> result],
                                     h.signal.correlation_id, h.signal.sender)
       IN IF transport[h.agent]
          THEN /\ queues' = hub_broadcast(queues, full_channel(h.signal.sender), response_signal)
               /\ handlers' = (handlers \ {h})
                              \cup {[h EXCEPT !.pc = "sent", !.outcome = outcome,
                                                !.result = result]}
          ELSE \* send_to raises in the task: no response leaves the agent
               /\ handlers' = (handlers \ {h})
                              \cup {[h EXCEPT !.pc = "raised", !.outcome = outcome,
                                                !.result = result]}
               /\ UNCHANGED queues
    /\ UNCHANGED <<transport, subscriptions, pending_requests, claimed_incidents, requests,
                   claim_calls, engine, redis>>

\* the caller adds the incident to agent._claimed_incidents itself
\* (handle_alert of the cloud-monitor example, before it calls claim_incident)
record_claim(a, incident_id) ==
    /\ incident_id \notin claimed_incidents[a]
    /\ claim_calls[a].pc = "idle"
    /\ claimed_incidents' = [claimed_incidents EXCEPT ![a] = @ \cup {incident_id}]
    /\ UNCHANGED <<transport, queues, subscriptions, pending_requests, requests, handlers,
                   claim_calls, engine, redis>>

\* the agents whose claim_incident call for the incident is in its sleep: their
\* claim signals carry an earlier timestamp than one made now
Sleeping(incident_id) ==
    { b \in SenseAgents : claim_calls[b].pc = "sleeping" /\ claim_calls[b].incident_id = incident_id }

\* SenseMixin.claim_incident, up to asyncio.sleep(0.5)
claim_incident(a, incident_id) ==
    /\ claim_calls[a].pc = "idle"
    /\ Room(full_channel(TasksChannel))
    /\ LET signal == Signal("claim", a, [incident_id |-> incident_id], incident_id, None)
       IN IF transport[a]
          THEN /\ queues' = hub_broadcast(queues, full_channel(TasksChannel), signal)
               /\ claim_calls' = [claim_calls EXCEPT ![a] =
                                     [pc |-> "sleeping", incident_id |-> incident_id,
                                      recorded |-> incident_id \in claimed_incidents[a],
                                      during |-> Sleeping(incident_id)]]
          ELSE /\ claim_calls' = [claim_calls EXCEPT ![a] =
                                     [pc |-> "raised", incident_id |-> incident_id,
                                      recorded |-> incident_id \in claimed_incidents[a],
                                      during |-> {}]]
               /\ UNCHANGED queues
    /\ UNCHANGED <<transport, subscriptions, pending_requests, claimed_incidents, requests,
                   handlers, engine, redis>>

\* SenseMixin.claim_incident, after the sleep
claim_incident_return(a) ==
    /\ claim_calls[a].pc = "sleeping"
    /\ claim_calls' = [claim_calls EXCEPT ![a] =
                          [pc |-> "returned", incident_id |-> claim_calls[a].incident_id,
                           recorded |-> claim_calls[a].recorded,
                           during |-> claim_calls[a].during,
                           won |-> claim_calls[a].incident_id \in claimed_incidents[a]]]
    /\ UNCHANGED <<transport, queues, subscriptions, pending_requests, claimed_incidents,
                   requests, handlers, engine, redis>>

\* SenseMixin.release_incident (it raises after the discard when the agent
\* has no transport)
release_incident(a, incident_id) ==
    /\ Room(full_channel(TasksChannel))
    /\ claimed_incidents' = [claimed_incidents EXCEPT ![a] = @ \ {incident_id}]
    /\ LET signal == Signal("release", a, [incident_id |-> incident_id], None, None)
       IN IF transport[a]
          THEN queues' = hub_broadcast(queues, full_channel(TasksChannel), signal)
          ELSE UNCHANGED queues
    /\ UNCHANGED <<transport, subscriptions, pending_requests, requests, handlers,
                   claim_calls, engine, redis>>

\* the agents of the network are plain Agents with SenseMixin, just constructed
SenseStart == Init /\ kind = "agent"

\* the request protocol: the commander requests, any agent answers; the
\* other agent may also broadcast a claim whose id collides with a request's
RequestNext ==
    \/ \E a \in SenseAgents : join_network(a)
    \/ \E a \in SenseAgents : leave_network(a)
    \/ \E t \in RequestTargets \ {Requester}, task \in Tasks : request(Requester, t, task)
    \/ \E i \in 1..Len(requests) : request_return(i)
    \/ \E i \in 1..Len(requests) : request_timeout(i)
    \/ \E a \in SenseAgents : signal_loop(a)
    \/ \E a \in SenseAgents : \E o \in InvokeOutcomes(a) : handle_request(a, o)
    \/ \E a \in SenseAgents \ {Requester} : claim_incident(a, CollidingIncident)

\* agents that mix SenseMixin into Agent, on one hub, exchanging requests
RequestSpec == SenseStart /\ [][RequestNext]_vars

\* the claim protocol
ClaimNext ==
    \/ \E a \in SenseAgents : join_network(a)
    \/ \E a \in SenseAgents : leave_network(a)
    \/ \E a \in SenseAgents : signal_loop(a)
    \/ \E a \in SenseAgents, i \in Incidents : record_claim(a, i)
    \/ \E a \in SenseAgents, i \in Incidents : claim_incident(a, i)
    \/ \E a \in SenseAgents : claim_incident_return(a)
    \/ \E a \in SenseAgents, i \in Incidents : release_incident(a, i)

\* the same agents, claiming and releasing incidents
ClaimSpec == SenseStart /\ [][ClaimNext]_vars

\* ===================================================== RedisMemory
\* RedisMemory.add_messages is called: it runs up to 'await self._client.get'
\* in get_messages (redis.py lines 47, 32)
RedisAddMessages(sid) ==
    /\ Len(add_calls) < MaxAdds
    /\ add_calls' = Append(add_calls,
                           [session_id |-> sid,
                            messages |-> AddedMessages(Len(add_calls) + 1),
                            pc |-> "get",
                            data |-> Nil,
                            during |-> { i \in 1..Len(add_calls) : add_calls[i].pc # "returned" }])
    /\ UNCHANGED <<redis_data, engine, sense>>

\* the server answers the GET: get_messages decodes, add_messages extends the
\* list and _save_messages encodes it and runs up to 'await self._client.set'
\* (redis.py lines 32-37, 48-49, 57-62)
RedisGet(i) ==
    /\ i \in 1..Len(add_calls)
    /\ add_calls[i].pc = "get"
    /\ LET data == redis_data[_key(add_calls[i].session_id)]
           existing == IF data = Nil THEN <<>> ELSE json_loads(data)
       IN add_calls' = [add_calls EXCEPT ![i].pc = "set",
                                         ![i].data = json_dumps(existing \o add_calls[i].messages)]
    /\ UNCHANGED <<redis_data, engine, sense>>

\* the server executes the SET and add_messages returns
RedisSet(i) ==
    /\ i \in 1..Len(add_calls)
    /\ add_calls[i].pc = "set"
    /\ redis_data' = [redis_data EXCEPT ![_key(add_calls[i].session_id)] = add_calls[i].data]
    /\ add_calls' = [add_calls EXCEPT ![i].pc = "returned"]
    /\ UNCHANGED <<engine, sense>>

RedisStart == Init /\ kind = "agent"

RedisNext ==
    \/ \E sid \in Sessions : RedisAddMessages(sid)
    \/ \E i \in 1..MaxAdds : RedisGet(i)
    \/ \E i \in 1..MaxAdds : RedisSet(i)

\* callers of one RedisMemory whose add_messages calls interleave at the awaits
RedisSpec == RedisStart /\ [][RedisNext]_vars

\* ------------------------------------------------------------ properties
Last(seq) == seq[Len(seq)]

OfType(evs, t) == LET Is(e) == e.type = t IN SelectSeq(evs, Is)

\* the events the invoke of frame f has yielded: a branch holds them wrapped
Emitted(f) == IF f = 0 THEN events[0] ELSE InnerEvents(events[f])

\* completion, or error with recoverable = false
Terminal(e) ==
    \/ e.type = "completion"
    \/ e.type = "error" /\ ~e.recoverable

Terminals(evs) == SelectSeq(evs, Terminal)

IsMaxIterationsError(e, n) ==
    /\ e.type = "error"
    /\ e.recoverable = FALSE
    /\ e.error = <<"Max iterations (">> \o ToStr(n) \o <<") exceeded">>

\* the history the invocation of frame f loaded when it started
HistoryBefore(f) == SubSeq(messages[f], 1, Len(messages[f]) - Len(new_messages[f]))

\* the calls of the model responses recorded in msgs, in order
RECURSIVE AllCalls(_)
AllCalls(msgs) ==
    IF msgs = <<>> THEN <<>> ELSE msgs[1].tool_calls \o AllCalls(Tail(msgs))

\* the number of model responses with tool calls recorded in msgs
RECURSIVE ToolTurns(_)
ToolTurns(msgs) ==
    IF msgs = <<>> THEN 0
    ELSE (IF msgs[1].tool_calls # <<>> THEN 1 ELSE 0) + ToolTurns(Tail(msgs))

\* C1: every top-level invocation emits exactly one terminal event (a
\* completion, or an error with recoverable = false) and that event is the
\* last of the stream: none while the invocation runs, and exactly one, in
\* last position, once it has ended (by returning or by raising).
C1_OneTerminalEventLast ==
    /\ pc[0] \in {"done", "raised"} =>
          /\ events[0] # <<>>
          /\ Terminal(Last(events[0]))
          /\ Len(Terminals(events[0])) = 1
    /\ pc[0] \notin {"idle", "done", "raised"} => Terminals(events[0]) = <<>>

\* C1, as the code behaves: an invocation that has returned has emitted
\* exactly one terminal event, the last of its stream; one that is running or
\* that has raised has emitted none.
C1_OneTerminalEventUnlessRaised ==
    /\ pc[0] = "done" =>
          /\ events[0] # <<>>
          /\ Terminal(Last(events[0]))
          /\ Len(Terminals(events[0])) = 1
    /\ pc[0] \notin {"idle", "done"} => Terminals(events[0]) = <<>>

\* the tool_call events (whole) and the call ids of the tool_result events among evs
ToolTrace(evs) ==
    LET Is(e) == e.type \in {"tool_call", "tool_result"}
        sel == SelectSeq(evs, Is)
    IN [i \in 1..Len(sel) |->
          IF sel[i].type = "tool_call" THEN sel[i] ELSE <<"tool_result", sel[i].call_id>>]

\* per recorded model response with k calls: its k tool_call events in
\* response order, then k tool_result events
RECURSIVE TurnTrace(_)
TurnTrace(msgs) ==
    IF msgs = <<>> THEN <<>>
    ELSE LET tc == msgs[1].tool_calls
             k == Len(tc)
         IN [i \in 1..(2 * k) |->
               IF i <= k
               THEN [type |-> "tool_call", tool_name |-> tc[i].name,
                     tool_input |-> tc[i].input, call_id |-> tc[i].id]
               ELSE <<"tool_result", tc[i - k].id>>]
            \o TurnTrace(Tail(msgs))

\* C2: Agent.invoke: for every model response with k >= 1 tool calls, exactly
\* k tool_call events are emitted, in response order, before any tool_result
\* event of the turn (while the tools run, the stream ends with the k
\* tool_call events of the response), and exactly k tool_result events are
\* emitted before the next model call (at the head of the loop every turn
\* has its k results).
C2_ToolCallsThenResults ==
    \A f \in Frames :
        (RunsAgent(f) /\ pc[f] \in {"loop", "gather", "done"}) =>
            LET exp == TurnTrace(new_messages[f])
                k == Len(response[f].tool_calls)
                evs == Emitted(f)
                got == ToolTrace(evs)
            IN IF pc[f] = "gather"
               THEN /\ k >= 1
                    /\ got = SubSeq(exp, 1, Len(exp) - k)
                    /\ \A i \in 1..k :
                          /\ evs[Len(evs) - k + i].type = "tool_call"
                          /\ evs[Len(evs) - k + i].call_id = response[f].tool_calls[i].id
                          /\ evs[Len(evs) - k + i].tool_name = response[f].tool_calls[i].name
               ELSE got = exp

C2_Witness ==
    /\ kind = "agent"
    /\ pc[0] = "loop"
    /\ Len(response[0].tool_calls) = 2
    /\ Len(OfType(events[0], "tool_result")) = 2
    /\ Len(OfType(events[0], "tool_call")) = 2

\* every model call of the invocation of frame f was answered with tool calls
AlwaysTools(f) == ncalls[f] >= 1 /\ ToolTurns(new_messages[f]) = ncalls[f]

\* C3: Agent.invoke with max_iterations = N whose model requests a tool call
\* on every response: no terminal event while the loop runs; when the
\* invocation has ended the model was called exactly N times, the stream
\* holds exactly one error event, the last event, with recoverable = false
\* and the 'Max iterations (N) exceeded' message, and no completion event.
C3_MaxIterationsError ==
    \A f \in Frames :
        (RunsAgent(f) /\ AlwaysTools(f)) =>
            LET n == max_iterations[who[f]]
                evs == Emitted(f)
            IN /\ ncalls[f] <= n
               /\ pc[f] \in {"loop", "gather"} =>
                     OfType(evs, "error") = <<>> /\ OfType(evs, "completion") = <<>>
               /\ pc[f] = "done" =>
                     /\ ncalls[f] = n
                     /\ IsMaxIterationsError(Last(evs), n)
                     /\ Len(OfType(evs, "error")) = 1
                     /\ OfType(evs, "completion") = <<>>

C3_Witness ==
    /\ kind = "agent"
    /\ pc[0] = "done"
    /\ AlwaysTools(0)
    /\ max_iterations[who[0]] = MaxIterations
    /\ IsMaxIterationsError(Last(events[0]), MaxIterations)

\* the first model response of frame f has non-empty text and no tool calls
FirstResponseIsText(f) ==
    /\ ncalls[f] = 1
    /\ "absent" \notin DOMAIN response[f]
    /\ Truthy(response[f].text)
    /\ response[f].tool_calls = <<>>

\* C4: Agent.invoke without streaming: when the first model response has
\* non-empty text and no tool calls, the invocation has ended and its stream
\* is exactly one event, the completion event with that text, whatever the
\* history of the session.
C4_SimpleCompletion ==
    \A f \in Frames :
        (RunsAgent(f) /\ ~stream[f] /\ FirstResponseIsText(f)) =>
            /\ pc[f] = "done"
            /\ Emitted(f) = << [type |-> "completion", response |-> response[f].text] >>

C4_Witness ==
    /\ kind = "agent"
    /\ ~stream[0]
    /\ FirstResponseIsText(0)
    /\ HistoryBefore(0) # <<>>
    /\ Len(events[0]) = 1

\* the tool_result events and messages of the invocation of frame f, and the
\* calls its model requested, each in order
ResultEvents(f) == OfType(Emitted(f), "tool_result")

ResultMessages(f) == LET Is(m) == m.role = "tool_result" IN SelectSeq(new_messages[f], Is)

Calls(f) == AllCalls(new_messages[f])

\* x in s, for a str s
Has(s, x) == \E i \in 1..Len(s) : s[i] = x

\* frame f runs an invoke
Invoked(f) == who[f] \in Agents /\ pc[f] \notin {"idle", "scheduled"}

\* the i-th tool_result event and message answer the i-th requested call,
\* and at the head of the loop no requested call is without its result
Answered(f) ==
    LET res == ResultEvents(f)
        msgs == ResultMessages(f)
        calls == Calls(f)
    IN /\ Len(res) <= Len(calls)
       /\ Len(msgs) = Len(res)
       /\ \A i \in 1..Len(res) :
             /\ res[i].call_id = calls[i].id
             /\ msgs[i].tool_call_id = calls[i].id
       /\ pc[f] = "loop" => Len(res) = Len(calls)

\* the call Supervisor.invoke was handling when it raised, if any
RaisedAt == IF "absent" \in DOMAIN response[0] THEN <<>> ELSE <<response[0].tool_calls[idx]>>

\* an ended invoke has ended with a terminal event, not with a tool result
EndedByTerminal(f) ==
    pc[f] = "done" => LET evs == Emitted(f) IN evs # <<>> /\ Terminal(Last(evs))

\* C5: a tool call whose name is not in the agent's catalog never raises out
\* of invoke (Agent.invoke and Supervisor.invoke): it gets a tool_result event
\* with its call id, a null result and a non-null error that contains the
\* requested name, a tool_result message with its call id is appended to the
\* conversation, and the invocation goes on: it is back at the head of the
\* loop with every call answered, and it ends only with a terminal event.
C5_UnknownActionRecovered ==
    \A f \in Frames :
        Invoked(f) =>
            /\ Answered(f)
            /\ LET res == ResultEvents(f)
                   calls == Calls(f)
               IN \A i \in 1..Len(res) :
                     get_action(who[f], calls[i].name) = None =>
                         /\ res[i].result = PyNone
                         /\ res[i].error # None
                         /\ Has(res[i].error, calls[i].name)
            /\ (pc[f] = "raised" /\ f = 0) =>
                  \A c \in {RaisedAt[j] : j \in 1..Len(RaisedAt)} : get_action(who[0], c.name) # None
            /\ EndedByTerminal(f)

C5_Witness ==
    /\ kind = "agent"
    /\ ncalls[0] = 2
    /\ Len(ResultEvents(0)) >= 1
    /\ Calls(0)[1].name = "nonexistent"
    /\ ResultEvents(0)[1].error = <<"Unknown action: ", "nonexistent">>
    /\ ResultMessages(0)[1].content = <<"Error: ", "Unknown action: ", "nonexistent">>

\* a call of a registered tool other than the delegate action
Registered(f, c) == c.name # "delegate" /\ get_action(who[f], c.name) # None

\* the event e reports the outcome o of a tool
Reports(e, o) ==
    IF o.kind = "raise"
    THEN e.result = PyNone /\ e.error = o.msg
    ELSE e.result = o.value /\ e.error = None

\* C6: a registered tool that raises never makes invoke raise (Agent.invoke
\* and Supervisor.invoke): its tool_result event has a null result and the
\* exception message as error, every other call of the batch has its own
\* result (a returned value comes with a null error), and the invocation goes
\* on: back at the head of the loop every call is answered.
C6_ToolExceptionRecovered ==
    \A f \in Frames :
        Invoked(f) =>
            /\ Answered(f)
            /\ LET res == ResultEvents(f)
                   calls == Calls(f)
               IN \A i \in 1..Len(res) :
                     Registered(f, calls[i]) =>
                         \E o \in ToolOutcomes(calls[i].name) : Reports(res[i], o)
            /\ (pc[f] = "raised" /\ f = 0) =>
                  \A c \in {RaisedAt[j] : j \in 1..Len(RaisedAt)} : ~Registered(0, c)
            /\ RunsAgent(f) =>
                  LET evs == Emitted(f)
                  IN (evs # <<>> /\ Last(evs).type = "tool_result") => pc[f] = "loop"

C6_Witness ==
    /\ kind = "agent"
    /\ pc[0] = "loop"
    /\ Len(Calls(0)) = 2
    /\ Calls(0)[1].name = "failing_tool"
    /\ Calls(0)[2].name = "get_weather"
    /\ Len(new_messages[0]) = 4
    /\ ResultEvents(0)[1].error = <<"Something went wrong!">>
    /\ ResultEvents(0)[1].result = PyNone
    /\ ResultEvents(0)[2].error = None
    /\ ResultEvents(0)[2].result # PyNone

\* C7: in every invocation of Agent.invoke and of Supervisor.invoke the
\* number of calls made to the agent's own model client never exceeds its
\* max_iterations.
C7_ModelCallsBounded ==
    \A f \in Frames : who[f] \in Agents => ncalls[f] <= max_iterations[who[f]]

C7_Witness ==
    /\ kind = "supervisor"
    /\ max_iterations[Manager] = MaxIterations
    /\ ncalls[0] = MaxIterations
    /\ who[1] = "FinanceAgent"
    /\ ncalls[1] = max_iterations["FinanceAgent"]
    /\ pc[0] = "done"

\* C8: when a top-level invocation (Agent.invoke or Supervisor.invoke) ends
\* with the max-iterations error event, the stored history of its session is
\* what the invocation loaded at its start: nothing it accumulated is
\* persisted.  The same holds as long as no completion event was emitted.
C8_NothingPersistedOnFailure ==
    /\ (pc[0] = "done" /\ events[0] # <<>>
          /\ IsMaxIterationsError(Last(events[0]), max_iterations[who[0]])) =>
             memory[who[0]][session_id[0]] = HistoryBefore(0)
    /\ (pc[0] # "idle" /\ OfType(events[0], "completion") = <<>>) =>
             memory[who[0]][session_id[0]] = HistoryBefore(0)

C8_Witness ==
    /\ pc[0] = "done"
    /\ events[0] # <<>>
    /\ IsMaxIterationsError(Last(events[0]), max_iterations[who[0]])
    /\ HistoryBefore(0) # <<>>
    /\ Len(new_messages[0]) >= 3

IsPrefix(s, t) == Len(s) <= Len(t) /\ SubSeq(t, 1, Len(s)) = s

\* msgs is a sequence of tool turns: an assistant tool-call message with
\* k >= 1 calls, then one tool_result message per call, in the order of the calls
RECURSIVE IsTurns(_)
IsTurns(msgs) ==
    \/ msgs = <<>>
    \/ LET k == Len(msgs[1].tool_calls)
       IN /\ msgs[1].role = "assistant"
          /\ msgs[1].content = None
          /\ k >= 1
          /\ Len(msgs) >= k + 1
          /\ \A i \in 1..k : /\ msgs[1 + i].role = "tool_result"
                             /\ msgs[1 + i].tool_calls = NoToolCalls
                             /\ msgs[1 + i].tool_call_id = msgs[1].tool_calls[i].id
          /\ IsTurns(SubSeq(msgs, k + 2, Len(msgs)))

\* C9: when Agent.invoke ends with a completion event, the stored history of
\* the session is the history stored before the invocation followed by
\* exactly the messages of this invocation: the user message, per tool turn
\* the assistant tool-call message and one tool_result message per call, then
\* the final assistant message with the completion text.  What was stored
\* before stays a prefix of the stored history throughout, invocation after
\* invocation, and no other session is written.
C9_HistoryExtendedOnCompletion ==
    kind = "agent" =>
        LET mem == memory[who[0]][session_id[0]]
            before == HistoryBefore(0)
            added == SubSeq(mem, Len(before) + 1, Len(mem))
        IN /\ pc[0] # "idle" => IsPrefix(before, mem)
           /\ \A a \in Agents, s \in AllSessions :
                 <<a, s>> # <<who[0], session_id[0]>> => memory[a][s] = <<>>
           /\ (pc[0] = "done" /\ events[0] # <<>> /\ Last(events[0]).type = "completion") =>
                 /\ Len(added) >= 2
                 /\ added[1] = [role |-> "user", content |-> input_text[0],
                                tool_calls |-> NoToolCalls, tool_call_id |-> None]
                 /\ Last(added) = [role |-> "assistant", content |-> Last(events[0]).response,
                                   tool_calls |-> NoToolCalls, tool_call_id |-> None]
                 /\ IsTurns(SubSeq(added, 2, Len(added) - 1))
                 /\ LET calls == AllCalls(added)
                        announced == OfType(events[0], "tool_call")
                    IN /\ Len(calls) = Len(announced)
                       /\ \A i \in 1..Len(calls) :
                             /\ calls[i].id = announced[i].call_id
                             /\ calls[i].name = announced[i].tool_name

C9_Witness ==
    /\ kind = "agent"
    /\ pc[0] = "done"
    /\ events[0] # <<>>
    /\ Last(events[0]).type = "completion"
    /\ Len(HistoryBefore(0)) = 2
    /\ ToolTurns(new_messages[0]) = 1
    /\ Len(memory[who[0]][session_id[0]]) >= 6

\* the delegation records ds name distinct registered collaborators
DistinctRegistered(ds) ==
    /\ \A i \in 1..Len(ds) : ds[i].agent_name \in Collaborators
    /\ \A i, j \in 1..Len(ds) : i # j => ds[i].agent_name # ds[j].agent_name

\* the position of the first tool_result event of evs after position i (0: none)
NextResult(evs, i) ==
    IF \E j \in (i + 1)..Len(evs) : evs[j].type = "tool_result"
    THEN CHOOSE j \in (i + 1)..Len(evs) :
            /\ evs[j].type = "tool_result"
            /\ \A h \in (i + 1)..(j - 1) : evs[h].type # "tool_result"
    ELSE 0

\* C10: supervisor mode: a parallel delegation whose batch names m distinct
\* registered collaborators produces exactly m collaborator_start and exactly
\* m collaborator_complete events, and the delegate call's tool result is a
\* mapping whose key set is exactly those m names, whatever order the
\* branches finish in: once the batch is no longer awaited, its events and
\* its result are in the stream.
C10_ParallelDelegationAnswered ==
    kind = "supervisor" =>
        \A i \in 1..Len(events[0]) :
            (events[0][i].type = "delegation" /\ DistinctRegistered(events[0][i].delegations)) =>
                LET ds == events[0][i].delegations
                    j == NextResult(events[0], i)
                    seg == SubSeq(events[0], i + 1, j - 1)
                IN IF j = 0
                   THEN pc[0] = "await_gather"
                   ELSE /\ Len(OfType(seg, "collaborator_start")) = Len(ds)
                        /\ Len(OfType(seg, "collaborator_complete")) = Len(ds)
                        /\ events[0][j].error = None
                        /\ events[0][j].result.t = "str"
                        /\ JsonKeys(events[0][j].result.v) = { ds[h].agent_name : h \in 1..Len(ds) }

\* C10, as the code behaves: the batch is answered as C10 states unless a
\* branch raised, which ends the invocation of the supervisor with that
\* exception and without the events or the result of any branch.
C10_ParallelDelegationAnsweredUnlessRaised ==
    kind = "supervisor" =>
        \A i \in 1..Len(events[0]) :
            (events[0][i].type = "delegation" /\ DistinctRegistered(events[0][i].delegations)) =>
                LET ds == events[0][i].delegations
                    j == NextResult(events[0], i)
                    seg == SubSeq(events[0], i + 1, j - 1)
                IN IF j = 0
                   THEN \/ pc[0] = "await_gather"
                        \/ /\ pc[0] = "raised"
                           /\ \E h \in 1..Len(ds) : ~has_client(ds[h].agent_name)
                           /\ Len(events[0]) = i
                   ELSE /\ Len(OfType(seg, "collaborator_start")) = Len(ds)
                        /\ Len(OfType(seg, "collaborator_complete")) = Len(ds)
                        /\ events[0][j].error = None
                        /\ events[0][j].result.t = "str"
                        /\ JsonKeys(events[0][j].result.v) = { ds[h].agent_name : h \in 1..Len(ds) }

\* the delegate calls with a batch that the supervisor has answered: pairs of
\* the batch and the text of the tool result fed back for it
BatchAnswers ==
    LET calls == Calls(0)
        msgs == ResultMessages(0)
    IN { <<calls[i].input.delegations, msgs[i].content>> :
           i \in { h \in 1..Len(msgs) :
                     calls[h].name = "delegate" /\ "delegations" \in DOMAIN calls[h].input } }

\* C11: for every parallel delegation batch that has been answered, the tool
\* result fed back to the coordinating agent's model holds one collected
\* result per delegation record issued: as many entries as the batch has
\* records, also when a record names an unregistered collaborator or when two
\* records name the same collaborator.
C11_NoRecordDropped ==
    kind # "agent" =>
        \A a \in BatchAnswers : Cardinality(JsonKeys(a[2])) = Len(a[1])

\* C11, as the code behaves: the result fed back holds one entry per distinct
\* registered collaborator named in the batch; a record naming an
\* unregistered collaborator leaves no entry, and records naming the same
\* collaborator share one.
C11_OneResultPerRegisteredName ==
    kind # "agent" =>
        \A a \in BatchAnswers :
            JsonKeys(a[2]) = { a[1][h].agent_name : h \in 1..Len(a[1]) } \cap Collaborators

\* a delegate call with a single pair; the collaborator it names ("" when
\* the name is missing)
SinglePair(c) == c.name = "delegate" /\ "delegations" \notin DOMAIN c.input

NamedAgent(c) == Get(c.input, "agent_name", "")

UnknownSingle(c) == SinglePair(c) /\ NamedAgent(c) \notin Collaborators

\* the collaborator_start events the calls cs can cause: one per record that
\* names a registered collaborator
RECURSIVE StartsDue(_)
StartsDue(cs) ==
    IF cs = <<>> THEN 0
    ELSE (IF cs[1].name # "delegate" THEN 0
          ELSE IF SinglePair(cs[1]) THEN (IF NamedAgent(cs[1]) \in Collaborators THEN 1 ELSE 0)
          ELSE Cardinality({ h \in 1..Len(cs[1].input.delegations) :
                               cs[1].input.delegations[h].agent_name \in Collaborators }))
         + StartsDue(Tail(cs))

\* C12: Supervisor.invoke, supervisor mode and router mode: a single-pair
\* delegate call naming an unknown or empty collaborator raises nothing and
\* does not end the invocation: it gets a tool_result event with its call id,
\* a null result and a non-null error that names the agent, a tool_result
\* message with its call id and that text is appended to the conversation,
\* it causes no collaborator_start event (the stream holds no more of them
\* than the registered records of the calls taken up so far), and after the
\* tool_result event the supervisor is at its next tool call or at the head
\* of its loop (or it has made its next model call, and that one failed).
C12_UnknownCollaboratorRecovered ==
    kind # "agent" =>
        LET res == ResultEvents(0)
            msgs == ResultMessages(0)
            calls == Calls(0)
        IN /\ Answered(0)
           /\ \A i \in 1..Len(res) :
                 UnknownSingle(calls[i]) =>
                     /\ res[i].result = PyNone
                     /\ res[i].error # None
                     /\ Has(res[i].error, NamedAgent(calls[i]))
                     /\ msgs[i].content = res[i].error
           /\ pc[0] = "raised" =>
                 \A c \in {RaisedAt[j] : j \in 1..Len(RaisedAt)} : ~UnknownSingle(c)
           /\ Len(OfType(events[0], "collaborator_start"))
                 <= StartsDue(SubSeq(calls, 1, IF Len(res) < Len(calls) THEN Len(res) + 1 ELSE Len(calls)))
           /\ (res # <<>> /\ UnknownSingle(calls[Len(res)]) /\ Last(events[0]) = Last(res)) =>
                 \/ pc[0] \in {"loop", "proc", "await_tool"}
                 \/ pc[0] = "raised" /\ "absent" \in DOMAIN response[0] /\ ncalls[0] > ToolTurns(new_messages[0])

C12_Witness ==
    /\ kind = "router"
    /\ pc[0] = "loop"
    /\ ncalls[0] = 2
    /\ ToolTurns(new_messages[0]) = 2
    /\ Len(Calls(0)) = 2
    /\ UnknownSingle(Calls(0)[1]) /\ NamedAgent(Calls(0)[1]) = "Nobody"
    /\ UnknownSingle(Calls(0)[2]) /\ NamedAgent(Calls(0)[2]) = ""
    /\ Len(ResultEvents(0)) = 2
    /\ ResultEvents(0)[1].error = UnknownAgentError("Nobody")
    /\ OfType(events[0], "collaborator_start") = <<>>

\* the position of the routing event of the invocation (0: none)
RoutingAt ==
    IF \E i \in 1..Len(events[0]) : events[0][i].type = "routing"
    THEN CHOOSE i \in 1..Len(events[0]) : events[0][i].type = "routing"
    ELSE 0

\* the handoff announced at position i has ended the invocation: the last
\* event is a completion whose text is the response of the routed
\* collaborator's collaborator_complete event, the only one after position i
HandedOff(i) ==
    LET seg == SubSeq(events[0], i + 1, Len(events[0]))
        completes == OfType(seg, "collaborator_complete")
    IN /\ pc[0] = "done"
       /\ Len(completes) = 1
       /\ completes[1].agent_name = events[0][i].agent_name
       /\ Last(events[0]).type = "completion"
       /\ Last(events[0]).response = completes[1].response
       /\ Len(Terminals(events[0])) = 1

\* C13: router mode: a single-pair delegate call naming a registered
\* collaborator is announced by a routing event and ends the invocation with
\* a completion event whose text is that collaborator's collaborator_complete
\* response; after the routing event the router is never again at a point
\* where it calls its own model (it awaits the collaborator, then it is done).
C13_RouterHandoff ==
    (kind = "router" /\ RoutingAt # 0) =>
        /\ events[0][RoutingAt].agent_name \in Collaborators
        /\ Len(OfType(events[0], "routing")) = 1
        /\ pc[0] = "await_route" \/ HandedOff(RoutingAt)

\* C13, as the code behaves: the handoff ends with the collaborator's
\* response as completion unless the collaborator's invoke raises, which ends
\* the router's invocation with that exception and without a completion.
C13_RouterHandoffUnlessRaised ==
    (kind = "router" /\ RoutingAt # 0) =>
        /\ events[0][RoutingAt].agent_name \in Collaborators
        /\ Len(OfType(events[0], "routing")) = 1
        /\ \/ pc[0] = "await_route"
           \/ HandedOff(RoutingAt)
           \/ /\ pc[0] = "raised"
              /\ ~has_client(events[0][RoutingAt].agent_name)
              /\ Terminals(events[0]) = <<>>

\* the str sub occurs in the str s
Infix(sub, s) ==
    \E i \in 0..(Len(s) - Len(sub)) : SubSeq(s, i + 1, i + Len(sub)) = sub

Awaiting == pc[0] \in {"await_single", "await_route", "await_gather"}

\* the number of calls of the invocation the supervisor has taken up
TakenUp ==
    IF \/ Awaiting
       \/ pc[0] = "await_tool"
       \/ pc[0] = "raised" /\ "absent" \notin DOMAIN response[0]
       \/ pc[0] = "done" /\ RoutingAt # 0
    THEN Len(ResultEvents(0)) + 1
    ELSE Len(ResultEvents(0))

\* the delegate call whose branches the frames 1.. hold: the last one taken
\* up that started any (a record with every field None when there is none)
CurrentDelegation ==
    LET calls == Calls(0)
        S == { i \in 1..TakenUp : calls[i].name = "delegate" /\ ~UnknownSingle(calls[i]) }
    IN IF S = {} THEN ToolCall(None, None, <<>>)
       ELSE calls[CHOOSE i \in S : \A h \in S : h <= i]

\* the collaborator's invoke in branch b has ended with an error event
EndedInError(b) ==
    /\ who[b] \in Collaborators
    /\ pc[b] = "done"
    /\ Emitted(b) # <<>>
    /\ Last(Emitted(b)).type = "error"

\* the collaborator_complete event that states the failure of branch b
FailureReport(b) ==
    CollaboratorCompleteEvent(who[b], <<"Error: ">> \o Last(Emitted(b)).error)

\* the event e is in the stream and the first tool_result event after it has
\* a null error and a text containing e's response, which is also the content
\* of the tool_result message with that call id
FedBack(e) ==
    \E j \in 1..Len(events[0]) :
        /\ events[0][j] = e
        /\ LET r == NextResult(events[0], j)
           IN /\ r # 0
              /\ events[0][r].error = None
              /\ events[0][r].result.t = "str"
              /\ Infix(e.response, events[0][r].result.v)
              /\ \E m \in 1..Len(new_messages[0]) :
                    /\ new_messages[0][m].role = "tool_result"
                    /\ new_messages[0][m].tool_call_id = events[0][r].call_id
                    /\ new_messages[0][m].content = events[0][r].result.v

\* C14: when a delegated collaborator has ended with an error event, its
\* delegation ends with a collaborator_complete event whose response is
\* 'Error: ' followed by the collaborator's error message, and once the
\* coordinating agent no longer awaits the delegation that event is in its
\* stream, followed by the tool result of the delegate call, which carries
\* that text as ordinary content (null error) into the conversation: the
\* coordinating agent has gone on with its loop.
C14_CollaboratorErrorFedBack ==
    kind # "agent" =>
        \A b \in Branches :
            EndedInError(b) =>
                /\ Last(events[b]) = FailureReport(b)
                /\ ~Awaiting => FedBack(FailureReport(b))

\* C14, as the code behaves: the failure is reported by a
\* collaborator_complete event; a single delegation in supervisor mode feeds
\* it back as the content of the tool result; a router hands the text over
\* as its own completion; a batch feeds back a mapping with an entry for the
\* collaborator (the text itself, unless a later record names the same
\* collaborator), or ends with the exception of a branch that raised.
C14_CollaboratorErrorReported ==
    kind # "agent" =>
        \A b \in Branches :
            EndedInError(b) =>
                /\ Last(events[b]) = FailureReport(b)
                /\ ~Awaiting =>
                     LET c == CurrentDelegation
                         e == FailureReport(b)
                     IN IF SinglePair(c)
                        THEN IF kind = "supervisor"
                             THEN FedBack(e)
                             ELSE HandedOff(RoutingAt) /\ Last(events[0]).response = e.response
                        ELSE LET ds == c.input.delegations
                             IN \/ /\ pc[0] = "raised"
                                   /\ \E h \in 1..Len(ds) :
                                         ds[h].agent_name \in Collaborators /\ ~has_client(ds[h].agent_name)
                                   /\ \A j \in 1..Len(events[0]) : events[0][j] # e
                                \/ /\ \E h \in (b + 1)..Len(ds) : ds[h].agent_name = who[b]
                                   /\ \E j \in 1..Len(events[0]) :
                                         /\ events[0][j] = e
                                         /\ NextResult(events[0], j) # 0
                                         /\ who[b] \in JsonKeys(events[0][NextResult(events[0], j)].result.v)
                                \/ FedBack(e)

CollaboratorTypes == {"collaborator_start", "collaborator", "collaborator_complete"}

\* the position of the last tool_call event of evs (0: none)
LastCallAt(evs) ==
    IF \E i \in 1..Len(evs) : evs[i].type = "tool_call"
    THEN CHOOSE i \in 1..Len(evs) :
            evs[i].type = "tool_call" /\ \A j \in (i + 1)..Len(evs) : evs[j].type # "tool_call"
    ELSE 0

\* the collaborator events the supervisor has yielded in its latest turn
TurnCollaboratorEvents ==
    LET Is(e) == e.type \in CollaboratorTypes
    IN SelectSeq(SubSeq(events[0], LastCallAt(events[0]) + 1, Len(events[0])), Is)

\* the number of calls of the latest model response with tool calls
RECURSIVE LastTurnSize(_)
LastTurnSize(msgs) ==
    IF msgs = <<>> THEN 0
    ELSE IF Last(msgs).tool_calls # <<>> THEN Len(Last(msgs).tool_calls)
    ELSE LastTurnSize(SubSeq(msgs, 1, Len(msgs) - 1))

\* the frames 1.. hold the branches of a delegate call of the latest turn
DelegationIsCurrent ==
    LET calls == Calls(0)
    IN \E i \in 1..TakenUp :
          /\ i > Len(calls) - LastTurnSize(new_messages[0])
          /\ calls[i].name = "delegate"
          /\ ~UnknownSingle(calls[i])

BranchCount ==
    IF SinglePair(CurrentDelegation) THEN 1 ELSE Len(CurrentDelegation.input.delegations)

\* what _execute_single_delegation has yielded in branch b is a
\* collaborator_start event, then the events of the collaborator's invoke,
\* each wrapped with the collaborator's name, then, when it has ended, a
\* collaborator_complete event, and nothing else
WellWrapped(b) ==
    LET evs == events[b]
    IN evs # <<>> =>
          /\ evs[1] = CollaboratorStartEvent(who[b], input_text[b])
          /\ \A i \in 2..Len(evs) :
                \/ evs[i].type = "collaborator" /\ evs[i].agent_name = who[b]
                \/ /\ i = Len(evs)
                   /\ pc[b] = "done"
                   /\ evs[i].type = "collaborator_complete"
                   /\ evs[i].agent_name = who[b]
          /\ pc[b] = "done" => Last(evs).type = "collaborator_complete"

\* the wrapped events of branch b are those of the collaborator's invoke, in
\* its order: per tool turn of its conversation the tool_call events then the
\* tool_result events, the tokens of a streamed completion, and its terminal
\* event last
InnerAsInvoked(b) ==
    LET inner == Emitted(b)
    IN /\ pc[b] \in {"loop", "done"} => ToolTrace(inner) = TurnTrace(new_messages[b])
       /\ pc[b] = "done" =>
             /\ inner # <<>>
             /\ Terminal(Last(inner))
             /\ Len(Terminals(inner)) = 1
             /\ Last(inner).type = "completion" =>
                   /\ Last(inner).response = Last(new_messages[b]).content
                   /\ OfType(inner, "text_token") =
                        (IF stream[b]
                         THEN [i \in 1..Len(Last(inner).response) |->
                                 TextTokenEvent(<<Last(inner).response[i]>>)]
                         ELSE <<>>)

\* C15: single, router and parallel delegation, with and without streaming:
\* what a delegation yields for a collaborator is its collaborator_start
\* event, every event of the collaborator's invoke wrapped as a collaborator
\* event with that collaborator's name, in the order of the invoke, and its
\* collaborator_complete event; and the coordinating agent forwards exactly
\* that, once: the wrapped events of its latest turn are those of the
\* branches of the turn's delegation, and its collaborator events are the
\* events of those branches, branch after branch (none while a batch is
\* still awaited, none in a turn without delegation).
C15_CollaboratorEventsForwarded ==
    kind # "agent" =>
        /\ \A b \in Branches :
              (who[b] \in Collaborators /\ pc[b] \notin {"idle", "scheduled"}) =>
                  WellWrapped(b) /\ InnerAsInvoked(b)
        /\ LET due == IF DelegationIsCurrent /\ pc[0] # "await_gather"
                      THEN GatheredEvents(1, BranchCount)
                      ELSE <<>>
           IN /\ OfType(TurnCollaboratorEvents, "collaborator") = OfType(due, "collaborator")
              /\ TurnCollaboratorEvents # <<>> => TurnCollaboratorEvents = due

\* C15, as the code behaves: as C15 states, except that a batch in which a
\* branch raised forwards nothing of any branch.
C15_ForwardedUnlessBatchRaised ==
    kind # "agent" =>
        /\ \A b \in Branches :
              (who[b] \in Collaborators /\ pc[b] \notin {"idle", "scheduled"}) =>
                  WellWrapped(b) /\ InnerAsInvoked(b)
        /\ LET due == IF DelegationIsCurrent /\ pc[0] # "await_gather"
                         /\ ~(pc[0] = "raised" /\ RaisedAt # <<>> /\ ~SinglePair(CurrentDelegation))
                      THEN GatheredEvents(1, BranchCount)
                      ELSE <<>>
           IN /\ OfType(TurnCollaboratorEvents, "collaborator") = OfType(due, "collaborator")
              /\ TurnCollaboratorEvents # <<>> => TurnCollaboratorEvents = due

\* the events of the turn of position i that precede it: those after the
\* last tool_call event before i
TurnBefore(i) ==
    LET k == LastCallAt(SubSeq(events[0], 1, i - 1))
    IN SubSeq(events[0], k + 1, i - 1)

\* the delegate call announced among the tool_call events that precede
\* position i (there is one when a collaborator has started)
DelegateCallBefore(i) ==
    LET S == { j \in 1..(i - 1) : events[0][j].type = "tool_call" /\ events[0][j].tool_name = "delegate" }
    IN events[0][CHOOSE j \in S : \A h \in S : h <= j]

\* C16: every collaborator_start event Supervisor.invoke emits is preceded,
\* within its turn, by the announcement that caused it: a delegation event in
\* supervisor mode, for a batch and for a single pair alike, a routing or a
\* delegation event in router mode.
C16_StartAnnounced ==
    kind # "agent" =>
        \A i \in 1..Len(events[0]) :
            events[0][i].type = "collaborator_start" =>
                \E j \in 1..Len(TurnBefore(i)) :
                    \/ TurnBefore(i)[j].type = "delegation"
                    \/ kind = "router" /\ TurnBefore(i)[j].type = "routing"

\* C16, as the code behaves: a collaborator_start event is preceded in its
\* turn by a delegation event (a batch) or by a routing event (router mode),
\* except for a single pair in supervisor mode, which is announced by nothing.
C16_StartAnnouncedUnlessSingle ==
    kind # "agent" =>
        \A i \in 1..Len(events[0]) :
            events[0][i].type = "collaborator_start" =>
                LET input == DelegateCallBefore(i).tool_input
                    before == TurnBefore(i)
                IN IF "delegations" \in DOMAIN input
                   THEN \E j \in 1..Len(before) :
                           before[j] = DelegationEvent(input.delegations)
                   ELSE IF kind = "router"
                   THEN \E j \in 1..Len(before) :
                           before[j] = RoutingEvent(events[0][i].agent_name, events[0][i].task)
                   ELSE /\ input.agent_name = events[0][i].agent_name
                        /\ \A j \in 1..Len(before) : before[j].type \notin {"delegation", "routing"}

\* the latest model response of frame f has neither text nor tool calls
Degenerate(f) ==
    /\ ncalls[f] >= 1
    /\ "absent" \notin DOMAIN response[f]
    /\ ~Truthy(response[f].text)
    /\ response[f].tool_calls = <<>>

\* C20: Agent.invoke and Supervisor.invoke: when the latest model response
\* has neither text nor tool calls, the invocation has ended (so that no
\* further model call is made) with a terminal error event, recoverable =
\* false, as its last event, and nothing was persisted.
C20_DegenerateResponseIsFatal ==
    Degenerate(0) =>
        /\ pc[0] = "done"
        /\ events[0] # <<>>
        /\ Last(events[0]).type = "error"
        /\ ~Last(events[0]).recoverable
        /\ memory[who[0]][session_id[0]] = HistoryBefore(0)

\* C20, as the code behaves: a response with neither text nor tool calls
\* yields no event and stores nothing, and the loop goes to its next
\* iteration: the next model call is made, or, the iterations being spent,
\* the max-iterations error ends the invocation.
C20_DegenerateResponseSkipped ==
    Degenerate(0) =>
        /\ \/ pc[0] = "loop"
           \/ /\ pc[0] = "done"
              /\ ncalls[0] = max_iterations[who[0]]
              /\ IsMaxIterationsError(Last(events[0]), max_iterations[who[0]])
        /\ memory[who[0]][session_id[0]] = HistoryBefore(0)
        /\ iteration[0] = ncalls[0]
        /\ events[0] = <<>> \/ Last(events[0]).type \in {"tool_result", "error"}

\* ------------------------------------------------------------------- C17
\* the task created for the request call r by the agent it names
HandlerOf(r) ==
    { h \in handlers : /\ h.agent = r.agent_name
                       /\ h.signal.correlation_id = r.correlation_id
                       /\ h.signal.sender = r.caller
                       /\ h.signal.payload = [task |-> r.task] }

\* C17: a request() that returns was resumed by a response signal carrying
\* the request's own correlation id, sent by the agent the request names from
\* its handling of that request's task, and it returns the text of that
\* agent's completion; no signal of another kind or with another correlation
\* id ever resolves the request.
C17_RequestReturnsCompletion ==
    \A i \in 1..Len(requests) :
        LET r == requests[i]
        IN  /\ r.future.state = "done" =>
                 /\ r.future.result.kind = "response"
                 /\ r.future.result.correlation_id = r.correlation_id
                 /\ r.future.result.sender = r.agent_name
                 /\ r.future.result.target = r.caller
                 /\ \E h \in HandlerOf(r) :
                       /\ h.pc = "sent"
                       /\ r.future.result.payload = [result |-> h.result]
            /\ r.pc = "returned" =>
                 /\ r.future.state = "done"
                 /\ \E h \in HandlerOf(r) :
                       /\ r.result = h.result
                       /\ h.outcome.kind = "completion" => r.result = h.outcome.response

\* two requests were made of the joined worker, and one has returned the
\* worker's completion
C17_Witness ==
    /\ Len(requests) = 2
    /\ \A i \in 1..2 : requests[i].agent_name = <<"cpu-watcher">>
    /\ \E i \in 1..2 :
          /\ requests[i].pc = "returned"
          /\ requests[i].result = <<"reply of ", "cpu-watcher">>

\* ------------------------------------------------------------------- C18
\* the call of request() has ended, by return or by an exception
Exited(r) == r.pc # "waiting"

NoLongerPending(r) == r.correlation_id \notin pending_requests[r.caller]

IsTimeoutError(r) == r.error # None /\ Head(r.error) = "TimeoutError: No response from '"

\* C18: a request() that ends without having received a matching response
\* ends by raising TimeoutError; once a request() has ended, in whatever way,
\* its correlation id is no longer in the caller's pending-request table; and
\* a request that timed out is never resolved by a response that comes later.
C18_TimeoutAndCleanup ==
    \A i \in 1..Len(requests) :
        LET r == requests[i]
        IN  /\ (Exited(r) /\ r.future.state # "done") => (r.pc = "timeout" /\ IsTimeoutError(r))
            /\ Exited(r) => NoLongerPending(r)
            /\ r.pc = "timeout" => r.future = Cancelled

\* C18 as the code behaves: the id is removed when request() returns or times
\* out, a timed-out request raises TimeoutError and is never resolved later;
\* a request() whose send raises, because the caller is not connected, raises
\* RuntimeError and leaves its id in the table.
C18_CleanupUnlessSendRaised ==
    \A i \in 1..Len(requests) :
        LET r == requests[i]
        IN  /\ r.pc \in {"waiting", "returned", "timeout", "raised"}
            /\ r.pc = "waiting" => ~NoLongerPending(r)
            /\ r.pc = "returned" => (r.future.state = "done" /\ NoLongerPending(r))
            /\ r.pc = "timeout" =>
                  (r.future = Cancelled /\ IsTimeoutError(r) /\ NoLongerPending(r))
            /\ r.pc = "raised" =>
                  /\ r.error = <<"RuntimeError: ">> \o NotConnected
                  /\ r.future = Pending
                  /\ ~NoLongerPending(r)

\* ------------------------------------------------------------------- C19
\* no agent other than a claims, or holds a claim on, the incident of a's call
Uncontended(a) ==
    \A b \in SenseAgents \ {a} :
        /\ claim_calls[b].pc = "idle" \/ claim_calls[b].incident_id # claim_calls[a].incident_id
        /\ claim_calls[a].incident_id \notin claimed_incidents[b]

\* C19: a claim_incident call that has returned, for an incident no other
\* agent claims, has returned True, whether or not the caller had put the
\* incident into the agent's set of claimed incidents before the call.
C19_UncontendedClaimWon ==
    \A a \in SenseAgents :
        (claim_calls[a].pc = "returned" /\ Uncontended(a)) => claim_calls[a].won

\* C19 as the code behaves: claim_incident returns True only for an incident
\* that was in the agent's set of claimed incidents when the call was made;
\* called alone it returns False.
C19_WonOnlyIfRecorded ==
    \A a \in SenseAgents :
        claim_calls[a].pc = "returned" => (claim_calls[a].won => claim_calls[a].recorded)

\* ------------------------------------------------------------------- C21
\* the last model call of the top-level invocation returned no response object
NoResponseReturned == pc[0] # "idle" /\ "absent" \in DOMAIN response[0]

\* C21: once the model backend has returned no response object to a top-level
\* invocation (of a plain agent or of a supervisor), the invocation has ended
\* by returning, the last event of its stream is an error event with
\* recoverable = false, it is at no point where a model call can follow, and
\* the stored history of its session is what it loaded at its start.
C21_NoResponseIsFatal ==
    NoResponseReturned =>
        /\ pc[0] = "done"
        /\ events[0] # <<>>
        /\ Last(events[0]).type = "error"
        /\ Last(events[0]).recoverable = FALSE
        /\ memory[who[0]][session_id[0]] = HistoryBefore(0)

\* C21 as the code behaves: Agent.invoke ends with the error event 'No
\* response from LLM' (recoverable = false) and persists nothing;
\* Supervisor.invoke raises instead, with no terminal event, and persists
\* nothing either.
C21_NoResponseFatalOrRaised ==
    NoResponseReturned =>
        /\ memory[who[0]][session_id[0]] = HistoryBefore(0)
        /\ kind = "agent" =>
              /\ pc[0] = "done"
              /\ events[0] # <<>>
              /\ Last(events[0]) = NoResponseError
              /\ Len(Terminals(events[0])) = 1
        /\ kind # "agent" =>
              /\ pc[0] = "raised"
              /\ Terminals(events[0]) = <<>>

\* ------------------------------------------------------------------- C22
\* the collaborator's invoke of branch b has raised
BranchRaised(b) == kind # "agent" /\ pc[b] = "raised"

\* the delegate call being handled has its tool_result event and message
DelegationAnswered ==
    /\ events[0] # <<>>
    /\ \E i \in 1..Len(events[0]) :
          /\ events[0][i].type = "tool_result"
          /\ events[0][i].call_id = CurrentDelegation.id
          /\ \A j \in (i + 1)..Len(events[0]) : events[0][j].type # "tool_call"
    /\ \E m \in 1..Len(new_messages[0]) :
          /\ new_messages[0][m].role = "tool_result"
          /\ new_messages[0][m].tool_call_id = CurrentDelegation.id

\* C22: when the invocation of a delegated collaborator has raised, the
\* coordinating agent's invocation has not raised and does not raise: it
\* still awaits the delegation, or the delegate call has got its tool result
\* (event and message) and the loop has gone on.
C22_CollaboratorRaiseRecovered ==
    \A b \in Branches :
        BranchRaised(b) =>
            /\ pc[0] # "raised"
            /\ ~Awaiting => DelegationAnswered

\* C22 as the code behaves: once a collaborator's invocation has raised, the
\* coordinating agent's invocation awaits the delegation or has raised with
\* it; the delegate call never gets a tool result, no sibling's buffered
\* events reach the stream, no terminal event is emitted and nothing is
\* persisted.
C22_CollaboratorRaisePropagates ==
    \A b \in Branches :
        BranchRaised(b) =>
            /\ pc[0] \in {"await_single", "await_route", "await_gather", "raised"}
            /\ events[0] # <<>>
            /\ Last(events[0]).type \in {"delegation", "collaborator_start", "routing"}
            /\ OfType(events[0], "collaborator_complete") =
                  OfType(SubSeq(events[0], 1, LastCallAt(events[0])), "collaborator_complete")
            /\ Terminals(events[0]) = <<>>
            /\ memory[who[0]][session_id[0]] = HistoryBefore(0)

\* ------------------------------------------------------------------- C23
\* frame f runs Agent.invoke
InAgentInvoke(f) == RunsAgent(f) /\ who[f] \in Agents /\ pc[f] \in {"loop", "gather", "done"}

\* the calls of the response being handled that have a tool_result event
\* after the response's tool_call events
AnsweredOfBatch(f) ==
    LET evs == Emitted(f)
        from == LastCallAt(evs)
    IN { i \in 1..Len(response[f].tool_calls) :
            \E j \in (from + 1)..Len(evs) :
                evs[j].type = "tool_result" /\ evs[j].call_id = response[f].tool_calls[i].id }

\* C23: while Agent.invoke waits for the tool calls of a response, every call
\* of the response has been handed to the event loop (none is held back
\* until another has finished), no tool result of the batch has been emitted
\* yet, and calls finish in any order; Agent.invoke is at the head of its
\* loop, where the next model call is made, only when no call is outstanding:
\* every requested call has its tool_result event and message.
C23_FanOutFanIn ==
    \A f \in Frames :
        InAgentInvoke(f) =>
            /\ pc[f] = "gather" =>
                  /\ Len(tasks[f]) = Len(response[f].tool_calls)
                  /\ Len(tasks[f]) >= 1
                  /\ \A i \in 1..Len(tasks[f]) : tasks[f][i].st \in {"scheduled", "running", "done"}
                  /\ AnsweredOfBatch(f) = {}
            /\ pc[f] # "gather" =>
                  /\ tasks[f] = <<>>
                  /\ Len(ResultEvents(f)) = Len(Calls(f))
                  /\ Len(ResultMessages(f)) = Len(Calls(f))

\* the two calls of a response run at once and the second has finished first
C23_Witness ==
    /\ kind = "agent"
    /\ pc[0] = "gather"
    /\ Len(tasks[0]) = 2
    /\ tasks[0][1].st = "running"
    /\ tasks[0][2].st = "done"
    /\ get_action(who[0], response[0].tool_calls[2].name) # None

\* ------------------------------------------------------------------- C24
\* Supervisor.invoke waits for a tool or for a delegation to finish
SupervisorWaits == kind # "agent" /\ (pc[0] = "await_tool" \/ Awaiting)

\* C24: while Supervisor.invoke waits for a call of a model response to
\* finish, every call of that response has started executing and none has
\* been answered yet: the calls of the batch run concurrently, a later one
\* not waiting for an earlier one to finish.
C24_SupervisorCallsConcurrent ==
    SupervisorWaits =>
        /\ idx = Len(response[0].tool_calls)
        /\ AnsweredOfBatch(0) = {}

\* C24 as the code behaves: Supervisor.invoke handles the calls of a response
\* one after the other in the order of the response: while it takes up or
\* waits for the call at position idx, every earlier call of the response has
\* its tool result and no later call has started.
C24_SupervisorCallsSequential ==
    (kind # "agent" /\ (SupervisorWaits \/ pc[0] = "proc")) =>
        /\ idx \in 1..Len(response[0].tool_calls)
        /\ AnsweredOfBatch(0) = 1..(idx - 1)
        /\ \A b \in Branches :
              ~Quiescent(b) => response[0].tool_calls[idx].name = "delegate"

\* ------------------------------------------------------------------- C25
\* the frames 1.. hold the branches of a batch that has been answered in the
\* latest turn
BatchAnswered ==
    /\ kind # "agent"
    /\ pc[0] \in {"loop", "proc", "await_tool", "done"}
    /\ DelegationIsCurrent
    /\ ~SinglePair(CurrentDelegation)
    /\ \E j \in (LastCallAt(events[0]) + 1)..Len(events[0]) :
          events[0][j].type = "tool_result" /\ events[0][j].call_id = CurrentDelegation.id

\* the text of the tool result of the batch
BatchContent ==
    LET j == CHOOSE j \in (LastCallAt(events[0]) + 1)..Len(events[0]) :
                events[0][j].type = "tool_result" /\ events[0][j].call_id = CurrentDelegation.id
    IN events[0][j].result.v

\* the last branch of the batch that names the collaborator of branch b
LastNaming(b) ==
    CHOOSE h \in b..BranchCount :
        who[h] = who[b] /\ \A g \in (h + 1)..BranchCount : who[g] # who[b]

\* C25: in a parallel delegation every record of the batch gets its branch
\* at once and the branches run concurrently; while a branch is unfinished
\* the coordinating agent only waits: no event or tool result of the batch is
\* in its stream and it is at no point where a model call can follow.  The
\* tool result exists only when every branch has finished, and it holds the
\* result of every collaborator that ran, whatever order the branches
\* finished in.
C25_BatchFanIn ==
    kind # "agent" =>
        /\ pc[0] = "await_gather" =>
              LET ds == response[0].tool_calls[idx].input.delegations
              IN /\ \A b \in 1..Len(ds) : pc[b] # "idle" /\ who[b] = ds[b].agent_name
                 /\ Last(events[0]) = DelegationEvent(ds)
                 /\ idx \notin AnsweredOfBatch(0)
        /\ pc[0] \in {"loop", "proc", "await_tool"} => \A b \in Branches : Quiescent(b)
        /\ BatchAnswered =>
              \A b \in 1..BranchCount :
                  /\ pc[b] = "done"
                  /\ who[b] \in Collaborators =>
                        Infix(<<"\"", who[b], "\": \"">>
                                 \o CompleteResponse(EmptyStr, events[LastNaming(b)]) \o <<"\"">>,
                              BatchContent)

\* both branches of a batch are running, the second ahead of the first
C25_Witness ==
    /\ kind = "supervisor"
    /\ pc[0] = "await_gather"
    /\ who[1] = "ResearchAgent"
    /\ who[2] = "FinanceAgent"
    /\ pc[1] = "loop"
    /\ pc[2] = "done"

\* ------------------------------------------------------------------- C26
\* the positions of the tool_call events of the turn that the event at
\* position j of evs belongs to: the latest unbroken run of them before j
TurnCallsAt(evs, j) ==
    LET before == { i \in 1..(j - 1) : evs[i].type = "tool_call" }
    IN { i \in before : \A k \in i..(j - 1) : evs[k].type # "tool_call" => \A c \in before : c < k }

\* the tool_result event res is what executing the call of the tool_call
\* event call gives in agent a
OutcomeOf(a, call, res) ==
    IF call.tool_name = "delegate" /\ a = Manager
    THEN \/ /\ res.result = PyNone
            /\ res.error = UnknownAgentError(Get(call.tool_input, "agent_name", ""))
            /\ "delegations" \notin DOMAIN call.tool_input
         \/ /\ res.result # PyNone
            /\ res.result.t = "str"
            /\ res.error = None
    ELSE IF get_action(a, call.tool_name) = None
    THEN <<res.result, res.error>> = <<PyNone, <<"Unknown action: ", call.tool_name>> >>
    ELSE \E o \in ToolOutcomes(call.tool_name) :
            \/ o.kind = "return" /\ <<res.result, res.error>> = <<o.value, None>>
            \/ o.kind = "raise" /\ <<res.result, res.error>> = <<PyNone, o.msg>>

\* C26: every tool_result event of a stream carries the call id of exactly
\* one tool_call event of the same turn, emitted before it, and its result
\* or error is an outcome of the tool that call names with the agent's
\* registry, whatever order the executions finished in.
C26_ResultMatchesItsCall ==
    \A f \in Frames :
        LET evs == Emitted(f)
        IN \A j \in 1..Len(evs) :
              evs[j].type = "tool_result" =>
                  /\ Cardinality({ i \in TurnCallsAt(evs, j) : evs[i].call_id = evs[j].call_id }) = 1
                  /\ \A i \in TurnCallsAt(evs, j) :
                        evs[i].call_id = evs[j].call_id => OutcomeOf(who[f], evs[i], evs[j])

\* a turn of two different tools of the plain agent has been answered
C26_Witness ==
    /\ kind = "agent"
    /\ Len(events[0]) >= 4
    /\ LET n == Len(events[0])
       IN /\ events[0][n - 3].type = "tool_call"
          /\ events[0][n - 3].tool_name = "failing_tool"
          /\ events[0][n - 2].type = "tool_call"
          /\ events[0][n - 2].tool_name = "get_weather"
          /\ events[0][n - 1].type = "tool_result"
          /\ events[0][n - 1].error # None
          /\ events[0][n].type = "tool_result"
          /\ events[0][n].call_id = events[0][n - 2].call_id
          /\ events[0][n].error = None

\* ------------------------------------------------------------------- C27
\* the branch of frame b runs a registered collaborator
RunsCollaborator(b) == kind # "agent" /\ pc[b] # "idle" /\ who[b] \in Collaborators

\* the stored history of the session the branch of frame b runs on
BranchHistory(b) == memory[who[b]][session_id[b]]

\* msg is a message of a collaborator's conversation: a task as user
\* message, or a collaborator's answer
CollaboratorMessage(msg) ==
    \/ msg.role = "user" /\ msg.content \in Tasks
    \/ msg.role = "assistant" /\ \E c \in Collaborators : msg.content = ModelText(c)
    \/ \E i \in 1..Len(msg.tool_calls) : msg.tool_calls[i].name = "loop"

\* C27: a branch runs its collaborator on the session '<parent>:<name>';
\* a collaborator's memory holds messages under such ids only, the
\* coordinating agent's memory holds nothing under them and no collaborator
\* message anywhere; and what a collaborator's invocation stores is appended
\* to the history it found there, so that repeated delegations extend one
\* history.
C27_DerivedSessionHistory ==
    kind # "agent" =>
        /\ \A b \in Branches :
              RunsCollaborator(b) =>
                  /\ session_id[b] = session_id[0] \o <<":", who[b]>>
                  /\ session_id[b] # session_id[0]
                  /\ IsPrefix(HistoryBefore(b), BranchHistory(b))
                  /\ (pc[b] = "done" /\ OfType(Emitted(b), "completion") # <<>>) =>
                        Infix(new_messages[b], BranchHistory(b))
        /\ \A c \in Collaborators : \A s \in DOMAIN memory[c] :
              memory[c][s] # <<>> => \E p \in Sessions : s = p \o <<":", c>>
        /\ \A s \in DOMAIN memory[Manager] :
              /\ (\E p \in Sessions, c \in Collaborators : s = p \o <<":", c>>) => memory[Manager][s] = <<>>
              /\ \A i \in 1..Len(memory[Manager][s]) : ~CollaboratorMessage(memory[Manager][s][i])

\* a second delegation to the same collaborator has been stored behind the first
C27_Witness ==
    /\ kind = "supervisor"
    /\ pc[1] = "done"
    /\ who[1] = "FinanceAgent"
    /\ HistoryBefore(1) # <<>>
    /\ BranchHistory(1) = HistoryBefore(1) \o new_messages[1]
    /\ new_messages[1] # <<>>
    /\ pc[2] = "idle"

\* ------------------------------------------------------------------- C28
\* the collaborator's invoke of frame b has loaded its history and has not ended
BranchRuns(b) == RunsCollaborator(b) /\ pc[b] \in {"loop", "gather"}

\* C28: no two delegation branches that run at the same time work on the
\* same session history, also when a batch names one collaborator twice.
C28_ConcurrentBranchesDistinctSessions ==
    \A a \in Branches, b \in Branches :
        (a # b /\ BranchRuns(a) /\ BranchRuns(b)) =>
            <<who[a], session_id[a]>> # <<who[b], session_id[b]>>

\* C28, as the code behaves: two branches run at the same time only inside a
\* parallel batch, and they work on the same session history exactly when
\* their records name the same collaborator.
C28_ConcurrentBranchesShareByName ==
    \A a \in Branches, b \in Branches :
        (a # b /\ BranchRuns(a) /\ BranchRuns(b)) =>
            /\ pc[0] \in {"await_gather", "raised"}
            /\ (<<who[a], session_id[a]>> = <<who[b], session_id[b]>>) <=> (who[a] = who[b])
            /\ who[a] = who[b] => HistoryBefore(a) = HistoryBefore(b)

\* ------------------------------------------------------------------- C29
\* the supervisor is awaiting the callable registered under the name of the
\* call it has taken up
AwaitsCallable == kind # "agent" /\ pc[0] = "await_tool"

\* what the callable registered as 'delegate' returns (supervisor.py lines 114-116)
PlaceholderResult == PyStr(EmptyStr)

\* C29: a coordinating agent never executes the callable registered under
\* the name 'delegate': it never awaits an action for a call of that name,
\* and no call of that name is answered with what the callable returns; the
\* call is dispatched as a delegation or answered with the unknown-agent error.
C29_DelegateNeverExecuted ==
    kind # "agent" =>
        /\ AwaitsCallable => response[0].tool_calls[idx].name # "delegate"
        /\ \A j \in 1..Len(events[0]) :
              events[0][j].type = "tool_result" =>
                  \A i \in TurnCallsAt(events[0], j) :
                      (events[0][i].call_id = events[0][j].call_id /\ events[0][i].tool_name = "delegate") =>
                          /\ events[0][j].result # PlaceholderResult
                          /\ \/ events[0][j].error # None
                             \/ \E k \in (i + 1)..(j - 1) :
                                   events[0][k].type \in {"delegation", "collaborator_start", "collaborator_complete"}

\* a delegate call has been answered while 'delegate' is a registered action
C29_Witness ==
    /\ kind = "supervisor"
    /\ get_action(who[0], "delegate") # None
    /\ events[0] # <<>>
    /\ Last(events[0]).type = "tool_result"
    /\ Last(events[0]).error = None
    /\ \E i \in TurnCallsAt(events[0], Len(events[0])) :
          events[0][i].call_id = Last(events[0]).call_id /\ events[0][i].tool_name = "delegate"

\* ------------------------------------------------------------------- C30
\* evs without its text_token events
StripTokens(evs) == LET Other(e) == e.type # "text_token" IN SelectSeq(evs, Other)

\* what the top-level stream gains in a step
Appended == SubSeq(events'[0], Len(events[0]) + 1, Len(events'[0]))

\* what an iteration of Agent.invoke yields for the model response resp when
\* it does not stream (agent.py lines 129-172)
NonStreamingYield(resp) ==
    IF "absent" \in DOMAIN resp THEN <<NoResponseError>>
    ELSE IF Truthy(resp.text) /\ resp.tool_calls = <<>> THEN <<CompletionEvent(resp.text)>>
    ELSE ToolCallEvents(resp.tool_calls)

\* the chunks of the text of resp, as events
ChunkEvents(resp) ==
    IF Truthy(resp.text) THEN [i \in 1..Len(resp.text) |-> TextTokenEvent(<<resp.text[i]>>)] ELSE <<>>

\* a step of a running Agent.invoke: a model call adds, after the text_token
\* events of the response if it streams, exactly what the non-streaming
\* iteration adds for that response; every other step adds no text_token
StreamingStep ==
    (kind = "agent" /\ pc[0] \notin {"idle", "done"}) =>
        /\ IsPrefix(events[0], events'[0])
        /\ stream'[0] = stream[0]
        /\ IF ncalls'[0] # ncalls[0]
           THEN /\ Appended = (IF stream[0] THEN ChunkEvents(response'[0]) ELSE <<>>)
                                 \o NonStreamingYield(response'[0])
                /\ StripTokens(Appended) = NonStreamingYield(response'[0])
           ELSE /\ OfType(Appended, "text_token") = <<>>
                /\ response'[0] = response[0]

\* C30: with the text_token events removed, the stream of Agent.invoke with
\* stream = true is, step by step, the stream the same model responses and
\* tool outcomes give with stream = false (which has no text_token event);
\* and the text_token events of an iteration come before everything else
\* the iteration yields.
C30_StreamingEquivalence ==
    /\ []((kind = "agent" /\ ~stream[0]) => StripTokens(events[0]) = events[0])
    /\ [][StreamingStep]_vars

\* a streamed invocation has ended: tokens before the tool calls of its
\* first response, tokens before its completion
C30_Witness ==
    /\ kind = "agent"
    /\ stream[0]
    /\ pc[0] = "done"
    /\ Len(events[0]) >= 7
    /\ events[0][1].type = "text_token"
    /\ events[0][3].type = "tool_call"
    /\ Last(events[0]).type = "completion"
    /\ events[0][Len(events[0]) - 1].type = "text_token"

\* ------------------------------------------------------------------- C31
\* a and b have both returned from claim_incident calls for one incident
\* that overlapped, each having recorded its claim before; a called first
ClaimedConcurrently(a, b) ==
    /\ a # b
    /\ claim_calls[a].pc = "returned"
    /\ claim_calls[b].pc = "returned"
    /\ claim_calls[a].incident_id = claim_calls[b].incident_id
    /\ claim_calls[a].recorded
    /\ claim_calls[b].recorded
    /\ a \in claim_calls[b].during

\* C31: of two overlapping claims of one incident by agents that recorded
\* their claims, at most one call returns True, and only the earlier one can.
C31_EarliestClaimWins ==
    \A a \in SenseAgents, b \in SenseAgents :
        ClaimedConcurrently(a, b) =>
            /\ ~(claim_calls[a].won /\ claim_calls[b].won)
            /\ ~claim_calls[b].won

\* the signal loop of agent a takes a claim signal of another agent off its queue
TakesClaim(a) ==
    /\ transport[a]
    /\ transport'[a]
    /\ queues[a] # <<>>
    /\ queues'[a] = Tail(queues[a])
    /\ Head(queues[a]).kind = "claim"
    /\ Head(queues[a]).sender # a

\* C31, as the code behaves: a competing claim removes the receiver's own
\* claim exactly when the sender's name sorts before the receiver's, whoever
\* claimed first; and a call returns True exactly when the claim is still
\* recorded at the end of its sleep, whether or not the competing claim has
\* been delivered by then.
C31_LowerNameWins ==
    /\ [][\A a \in SenseAgents :
            /\ TakesClaim(a) =>
                  LET signal == Head(queues[a])
                  IN claimed_incidents'[a] =
                        IF StrLess(signal.sender, a)
                        THEN claimed_incidents[a] \ {signal.payload.incident_id}
                        ELSE claimed_incidents[a]
            /\ (claim_calls[a].pc = "sleeping" /\ claim_calls'[a].pc = "returned") =>
                  claim_calls'[a].won = (claim_calls[a].incident_id \in claimed_incidents[a])
         ]_vars

\* ------------------------------------------------------------------- C32
\* the history stored for a session
RedisHistory(sid) ==
    IF redis_data[_key(sid)] = Nil THEN <<>> ELSE json_loads(redis_data[_key(sid)])

\* the calls i and j of add_messages were in progress at the same time
Overlapped(i, j) == i \in add_calls[j].during \/ j \in add_calls[i].during

\* the messages of call i are in the stored history of its session, in order
Kept(i) == Infix(add_calls[i].messages, RedisHistory(add_calls[i].session_id))

\* C32: when two add_messages calls on one session that overlapped in time
\* have both returned, the stored history holds the messages of both.
C32_NoLostUpdate ==
    \A i \in 1..Len(add_calls), j \in 1..Len(add_calls) :
        (/\ i # j
         /\ add_calls[i].session_id = add_calls[j].session_id
         /\ Overlapped(i, j)
         /\ add_calls[i].pc = "returned"
         /\ add_calls[j].pc = "returned") => (Kept(i) /\ Kept(j))

\* C32, as the code behaves: add_messages reads the whole history, extends
\* its copy and writes the copy back; a returned call's messages are in the
\* stored history when no other call on the session overlapped with it, and
\* the history is always what the call whose SET came last wrote.
C32_LastWriteWins ==
    /\ \A i \in 1..Len(add_calls) :
          (/\ add_calls[i].pc = "returned"
           /\ \A j \in 1..Len(add_calls) :
                 (j # i /\ add_calls[j].session_id = add_calls[i].session_id) => ~Overlapped(i, j))
          => Kept(i)
    /\ \A s \in Sessions :
          \/ /\ redis_data[_key(s)] = Nil
             /\ \A i \in 1..Len(add_calls) :
                   add_calls[i].session_id = s => add_calls[i].pc # "returned"
          \/ \E i \in 1..Len(add_calls) :
                /\ add_calls[i].session_id = s
                /\ add_calls[i].pc = "returned"
                /\ redis_data[_key(s)] = add_calls[i].data

\* ------------------------------------------------------------------- C33
\* the invocation of frame f has ended with a completion event
Completed(f) ==
    /\ pc[f] = "done"
    /\ Emitted(f) # <<>>
    /\ Last(Emitted(f)).type = "completion"

\* the stored history of the session of frame f
StoredHistory(f) == memory[who[f]][session_id[f]]

\* the stored history ends with the text as an assistant message
EndsWithAnswer(hist, text) ==
    /\ hist # <<>>
    /\ Last(hist).role = "assistant"
    /\ Last(hist).content = text
    /\ Last(hist).tool_calls = NoToolCalls

\* C33: when an invocation (plain agent, collaborator, supervisor, router)
\* has emitted its completion event with text T, the stored history of its
\* session ends with an assistant message whose content is T.
C33_CompletionIsStored ==
    \A f \in Frames :
        (Completed(f) /\ (f = 0 \/ RunsCollaborator(f))) =>
            EndsWithAnswer(StoredHistory(f), Last(Emitted(f)).response)

\* the router has ended its invocation by a handoff
RoutedCompletion == kind = "router" /\ Completed(0) /\ RoutingAt # 0

\* C33, as the code behaves: the completion of an agent's own final answer
\* is stored as the last assistant message; the completion of a router
\* handoff is not stored in the router's session at all: the history ends
\* with the messages of the turn that requested the handoff, the assistant
\* tool-call message or the tool result of a call before the delegate call.
C33_CompletionIsStoredUnlessRouted ==
    \A f \in Frames :
        (Completed(f) /\ (f = 0 \/ RunsCollaborator(f))) =>
            IF f = 0 /\ RoutedCompletion
            THEN /\ StoredHistory(0) = HistoryBefore(0) \o new_messages[0]
                 /\ Last(StoredHistory(0)).role \in {"assistant", "tool_result"}
                 /\ Last(StoredHistory(0)).role = "assistant" => Last(StoredHistory(0)).tool_calls # NoToolCalls
                 /\ \A i \in 1..Len(new_messages[0]) :
                       new_messages[0][i].content # Last(events[0]).response
            ELSE EndsWithAnswer(StoredHistory(f), Last(Emitted(f)).response)

\* ------------------------------------------------------------------- C34
\* the positions in hist of the tool_result messages that answer the calls
\* of the assistant message at position p: those up to the next assistant message
AnswersOf(hist, p) ==
    { q \in (p + 1)..Len(hist) :
         /\ hist[q].role = "tool_result"
         /\ \A k \in (p + 1)..q : hist[k].role # "assistant" }

\* the calls of the assistant message at position p that have not exactly
\* one tool_result message after it
Dangling(hist, p) ==
    { i \in 1..Len(hist[p].tool_calls) :
         Cardinality({ q \in AnswersOf(hist, p) :
                         hist[q].tool_call_id = hist[p].tool_calls[i].id }) # 1 }

\* every call of every stored assistant tool-call message is answered once
WellFormedHistory(hist) ==
    \A p \in 1..Len(hist) : hist[p].role = "assistant" => Dangling(hist, p) = {}

\* C34: after an invocation that ended with a completion event the stored
\* history of its session is well-formed: every call id of a stored
\* assistant tool-call message has exactly one stored tool_result message
\* with that id after it.
C34_StoredHistoryWellFormed ==
    \A f \in Frames :
        (Completed(f) /\ (f = 0 \/ RunsCollaborator(f))) => WellFormedHistory(StoredHistory(f))

\* C34, as the code behaves: the stored history is well-formed unless the
\* invocation ended by a router handoff; then the last assistant message
\* stored lists the delegate call and every call after it in the response
\* without a tool_result message, and everything before is well-formed.
C34_WellFormedUnlessRouted ==
    \A f \in Frames :
        (Completed(f) /\ (f = 0 \/ RunsCollaborator(f))) =>
            IF f = 0 /\ RoutedCompletion
            THEN LET hist == StoredHistory(0)
                     p == CHOOSE p \in 1..Len(hist) :
                             hist[p].role = "assistant" /\ \A k \in (p + 1)..Len(hist) : hist[k].role # "assistant"
                 IN /\ WellFormedHistory(SubSeq(hist, 1, p - 1))
                    /\ Dangling(hist, p) = idx..Len(hist[p].tool_calls)
                    /\ hist[p].tool_calls[idx].name = "delegate"
            ELSE WellFormedHistory(StoredHistory(f))

\* ------------------------------------------------------------------- C35
\* the tool_call event at position i of the router's stream has a
\* tool_result event of its call id after it, in its turn
AnsweredLater(i) ==
    \E j \in (i + 1)..Len(events[0]) :
        /\ events[0][j].type = "tool_result"
        /\ events[0][j].call_id = events[0][i].call_id
        /\ i \in TurnCallsAt(events[0], j)

\* the positions of the tool_call events of the turn that handed off
HandoffTurnCalls == TurnCallsAt(events[0], RoutingAt)

\* C35: router mode: when the invocation has ended by a handoff, every
\* non-delegate call announced in the turn of the handoff has its
\* tool_result event.
C35_HandoffDropsNoSibling ==
    RoutedCompletion =>
        \A i \in HandoffTurnCalls :
            events[0][i].tool_name # "delegate" => AnsweredLater(i)

\* C35, as the code behaves: the calls of the response are handled in order
\* and the handoff returns from the invocation: the calls before the
\* delegate call have their tool_result events, the delegate call and every
\* call after it have none.
C35_HandoffDropsLaterSiblings ==
    RoutedCompletion =>
        /\ Cardinality(HandoffTurnCalls) = Len(response[0].tool_calls)
        /\ \A i \in HandoffTurnCalls :
              LET k == Cardinality({ h \in HandoffTurnCalls : h <= i })
              IN /\ events[0][i].call_id = response[0].tool_calls[k].id
                 /\ AnsweredLater(i) <=> k < idx
        /\ response[0].tool_calls[idx].name = "delegate"

\* ------------------------------------------------------------------- C36
\* the call ids of the tool_call events of the turn of the event at position j
\* of evs, in stream order
RequestOrder(evs, j) ==
    LET InTurn(i) == i \in TurnCallsAt(evs, j)
        at == SelectSeq([i \in 1..Len(evs) |-> i], InTurn)
    IN [k \in 1..Len(at) |-> evs[at[k]].call_id]

\* the call ids of the tool_result events between the calls of that turn and
\* position j, j included
AnswerOrder(evs, j) ==
    LET After(i) == /\ i <= j
                    /\ evs[i].type = "tool_result"
                    /\ \A c \in TurnCallsAt(evs, j) : c < i
        at == SelectSeq([i \in 1..Len(evs) |-> i], After)
    IN [k \in 1..Len(at) |-> evs[at[k]].call_id]

\* the call ids of the tool_result messages that follow the assistant
\* message at position p of msgs, in stored order
MessageOrder(msgs, p) ==
    LET Is(q) == q \in AnswersOf(msgs, p)
        at == SelectSeq([q \in 1..Len(msgs) |-> q], Is)
    IN [k \in 1..Len(at) |-> msgs[at[k]].tool_call_id]

\* C36: in Agent.invoke the tool_result events of a turn come in the order
\* of the turn's tool_call events, and the tool_result messages appended to
\* the history come in the order of the calls of the assistant message they
\* follow, however the executions finished.
C36_ResultsInRequestOrder ==
    \A f \in Frames :
        InAgentInvoke(f) =>
            /\ \A j \in 1..Len(Emitted(f)) :
                  Emitted(f)[j].type = "tool_result" =>
                      IsPrefix(AnswerOrder(Emitted(f), j), RequestOrder(Emitted(f), j))
            /\ \A p \in 1..Len(new_messages[f]) :
                  new_messages[f][p].tool_calls # NoToolCalls =>
                      LET ids == [i \in 1..Len(new_messages[f][p].tool_calls) |->
                                     new_messages[f][p].tool_calls[i].id]
                      IN IF pc[f] = "gather" /\ \A q \in (p + 1)..Len(new_messages[f]) :
                                                    new_messages[f][q].role # "assistant"
                         THEN MessageOrder(new_messages[f], p) = <<>>
                         ELSE MessageOrder(new_messages[f], p) = ids

\* a turn of two different tools has been answered, events and messages
C36_Witness ==
    /\ kind = "agent"
    /\ pc[0] = "loop"
    /\ Len(response[0].tool_calls) = 2
    /\ response[0].tool_calls[1].name = "get_weather"
    /\ response[0].tool_calls[2].name = "nonexistent"
    /\ Len(new_messages[0]) >= 4
    /\ Last(new_messages[0]).tool_call_id = response[0].tool_calls[2].id
    /\ Last(events[0]).type = "tool_result"
    /\ Last(events[0]).call_id = response[0].tool_calls[2].id

\* ------------------------------------------------------------------- C37
\* the position of the delegation event of the latest batch (0: none)
BatchAt ==
    IF \E i \in 1..Len(events[0]) : events[0][i].type = "delegation"
    THEN CHOOSE i \in 1..Len(events[0]) :
            events[0][i].type = "delegation"
            /\ \A j \in (i + 1)..Len(events[0]) : events[0][j].type # "delegation"
    ELSE 0

\* the position of the tool_result event that answers the latest batch
BatchResultAt ==
    CHOOSE j \in (BatchAt + 1)..Len(events[0]) :
        /\ events[0][j].type = "tool_result"
        /\ \A k \in (BatchAt + 1)..(j - 1) : events[0][k].type # "tool_result"

\* the blocks of the branches 1..n, each block whole, in the order of the records
RECURSIVE Blocks(_, _)
Blocks(b, n) ==
    IF b > n THEN <<>>
    ELSE events[b] \o Blocks(b + 1, n)

\* the events of branch b are a block of its collaborator: its start, its
\* wrapped events, its complete, nothing of another collaborator
IsBlock(b) ==
    events[b] # <<>> =>
        /\ events[b][1].type = "collaborator_start"
        /\ Last(events[b]).type = "collaborator_complete"
        /\ \A i \in 1..Len(events[b]) :
              /\ events[b][i].agent_name = who[b]
              /\ (1 < i /\ i < Len(events[b])) => events[b][i].type = "collaborator"

\* C37: in a parallel delegation no collaborator event is in the
\* coordinating agent's stream before every branch has finished; then the
\* events between the delegation event and the batch's tool result are the
\* branches' blocks, one whole block per record in the order of the records,
\* whatever order the branches finished in.
C37_BatchBlocksInRecordOrder ==
    kind # "agent" =>
        /\ pc[0] = "await_gather" =>
              /\ BatchAt # 0
              /\ \A j \in (BatchAt + 1)..Len(events[0]) : events[0][j].type \notin CollaboratorTypes
        /\ BatchAnswered =>
              /\ BatchAt # 0
              /\ SubSeq(events[0], BatchAt + 1, BatchResultAt - 1) = Blocks(1, BranchCount)
              /\ \A b \in 1..BranchCount : IsBlock(b)

\* an answered batch of two collaborators with blocks of different length
C37_Witness ==
    /\ BatchAnswered
    /\ BranchCount = 2
    /\ who[1] = "FinanceAgent"
    /\ who[2] = "ResearchAgent"
    /\ Len(events[1]) > Len(events[2])
    /\ Len(events[2]) >= 3

\* ------------------------------------------------------------------- C38
\* the frames whose invocation executes tools itself
Executes(f) == IF f = 0 THEN pc[0] # "idle" ELSE RunsCollaborator(f)

\* the k-th tool call of the invocation of frame f was a regular tool call
\* that has been answered
RegularAnswered(f, k) ==
    /\ k \in 1..Len(ResultEvents(f))
    /\ k \in 1..Len(ResultMessages(f))
    /\ k \in 1..Len(Calls(f))
    /\ ~(Calls(f)[k].name = "delegate" /\ who[f] = Manager)

\* the tool call answered by the tool_result event e failed: the action was
\* unknown or the callable raised (execute_tool then returns result None and
\* error str(e))
Failed(e) == e.error # None

MarkedAsFailure(m) == IsPrefix(<<"Error: ">>, m.content)

\* C38: the tool_result message of a regular tool call is prefixed
\* 'Error: ' exactly when the call failed (unknown action, or the callable
\* raised, whatever the exception's message); otherwise its content is the
\* result, a str as it is and any other value JSON-encoded.
C38_FailureMarkedExactly ==
    \A f \in Frames : Executes(f) =>
        \A k \in 1..Len(Calls(f)) : RegularAnswered(f, k) =>
            LET e == ResultEvents(f)[k]
                m == ResultMessages(f)[k]
            IN /\ m.tool_call_id = e.call_id
               /\ Failed(e) <=> MarkedAsFailure(m)
               /\ Failed(e) => m.content = <<"Error: ">> \o e.error
               /\ ~Failed(e) =>
                     m.content = (IF e.result.t = "str" THEN e.result.v ELSE JsonDumps(e.result))

\* C38, as the code behaves: the message is marked as a failure exactly when
\* the error text is non-empty; a callable that raised an exception with an
\* empty message is fed back as the JSON text of None, 'null', like a tool
\* that returned None.
C38_FailureMarkedIfMessageNonEmpty ==
    \A f \in Frames : Executes(f) =>
        \A k \in 1..Len(Calls(f)) : RegularAnswered(f, k) =>
            LET e == ResultEvents(f)[k]
                m == ResultMessages(f)[k]
            IN /\ m.tool_call_id = e.call_id
               /\ MarkedAsFailure(m) <=> (Failed(e) /\ e.error # EmptyStr)
               /\ MarkedAsFailure(m) => m.content = <<"Error: ">> \o e.error
               /\ (Failed(e) /\ e.error = EmptyStr) =>
                     (e.result = PyNone /\ m.content = <<"null">> /\ Calls(f)[k].name = "failing_tool")
               /\ ~Failed(e) =>
                     m.content = (IF e.result.t = "str" THEN e.result.v ELSE JsonDumps(e.result))

\* ------------------------------------------------------------------- C39
\* the handlings of the request signal with correlation id c by agent a
HandlingsOf(a, c) == { h \in handlers : h.agent = a /\ h.signal.correlation_id = c }

\* C39: every request signal an agent of the network has taken up is
\* answered with exactly one response signal: it is handled once, and its
\* handling never ends without having sent the response, whatever the
\* outcome of the agent's invocation.
C39_EveryRequestAnswered ==
    \A h \in handlers :
        /\ Cardinality(HandlingsOf(h.agent, h.signal.correlation_id)) = 1
        /\ h.pc \in {"invoking", "sent"}

\* the handlings that end in this step
Ending == { h \in handlers' \ handlers : h.pc # "invoking" }

\* C39, as the code behaves: a request is handled once; when the agent's
\* invocation has ended (with a completion, with an error event or by
\* raising) the response with the request's correlation id is sent to the
\* requester if the agent is still connected, and the handling ends with the
\* RuntimeError of send_to, without a response, if the agent has left the
\* network meanwhile.
C39_AnsweredWhileConnected ==
    /\ [](\A h \in handlers :
            /\ Cardinality(HandlingsOf(h.agent, h.signal.correlation_id)) = 1
            /\ h.signal.kind = "request"
            /\ h.signal.target = h.agent
            /\ h.pc # "invoking" => h.result = HandleResult(h.outcome))
    /\ [][\A h \in Ending :
            /\ h.pc = "sent" <=> transport[h.agent]
            /\ h.pc = "raised" <=> ~transport[h.agent]
            /\ h.pc = "sent" =>
                  \A a \in subscriptions[full_channel(h.signal.sender)] :
                      Last(queues'[a]) = Signal("response", h.agent, [result |-> h.result],
                                                h.signal.correlation_id, h.signal.sender)
         ]_vars

\* ------------------------------------------------------------------- C40
\* the signal loop of agent a takes a signal off its queue in this step
Takes(a) ==
    /\ transport[a]
    /\ transport'[a]
    /\ queues[a] # <<>>
    /\ queues'[a] = Tail(queues[a])

\* agent a's record of its claim on incident i is removed in this step
ClaimRemoved(a, i) == i \in claimed_incidents[a] /\ i \notin claimed_incidents'[a]

\* C40: an agent's recorded claim on an incident is removed only by the
\* agent's own release_incident or when its signal loop takes a competing
\* claim for the incident; a release signal of another agent leaves it in place.
C40_ClaimRemovedOnlyByOwner ==
    [][\A a \in SenseAgents : \A i \in Incidents :
          ClaimRemoved(a, i) =>
              \/ ~Takes(a)
              \/ /\ Head(queues[a]).kind = "claim"
                 /\ Head(queues[a]).payload.incident_id = i
      ]_vars

\* C40, as the code behaves: the claim is removed by the agent's own
\* release_incident, by a competing claim of an agent whose name sorts
\* first, and by the release signal of any other agent that names the
\* incident, whether or not that agent held a claim on it; and every such
\* release signal taken by the signal loop removes it.
C40_ClaimRemovedByAnyRelease ==
    [][\A a \in SenseAgents : \A i \in Incidents :
          /\ ClaimRemoved(a, i) =>
                \/ ~Takes(a)
                \/ /\ Head(queues[a]).kind = "claim"
                   /\ Head(queues[a]).payload.incident_id = i
                   /\ StrLess(Head(queues[a]).sender, a)
                \/ /\ Head(queues[a]).kind = "release"
                   /\ Head(queues[a]).payload.incident_id = i
                   /\ Head(queues[a]).sender # a
          /\ (/\ Takes(a)
              /\ Head(queues[a]).kind = "release"
              /\ Head(queues[a]).sender # a
              /\ Head(queues[a]).payload.incident_id = i) => i \notin claimed_incidents'[a]
      ]_vars
====
